---- MODULE Spec2Model ----
(***************************************************************************)
(* SuperOrchestrator (src/src/services/super_orchestrator.py).             *)
(*                                                                         *)
(* Specifications:                                                         *)
(*   Spec      execute_synchronized_analysis run by concurrent callers:    *)
(*             session records, sync_lock, the stages of a run and the     *)
(*             exceptions collaborators may raise at each of them.         *)
(*   SpecSeq   the same steps for a single caller calling repeatedly.      *)
(*   SpecData  the result-combining helpers applied as pure functions to   *)
(*             bounded strict / alternate result sets.                     *)
(*   SpecExec  the component graph executor on the registered units        *)
(*             (SpecExecFair: with the fairness of a running call).        *)
(*   SpecOps   the registered operations applied to what their             *)
(*             collaborators return or raise.                              *)
(*   SpecDrivers  _execute_mental_drivers with its padding loop, one       *)
(*             iteration per step (SpecDriversFair: the loop keeps         *)
(*             running).                                                   *)
(*   SpecWebSearch  _execute_web_search on what the primary search and the *)
(*             secondary coordinator return or raise.                      *)
(*   SpecStatus  _check_all_services_status on what get_provider_status    *)
(*             returns or raises.                                          *)
(* MCPSupadataManager (src/src/services/mcp_supadata_manager.py):          *)
(*   SpecSupadata  search_youtube / search_twitter / search_linkedin with  *)
(*             _make_request, one HTTP attempt per step (SpecSupadataFair: *)
(*             the call keeps running).                                    *)
(* Python dicts are functions from key strings; a missing key is a key     *)
(* outside DOMAIN.                                                         *)
(***************************************************************************)
EXTENDS Integers, Sequences, FiniteSets, TLC

VARIABLES
    execution_state,    \* self.execution_state: session id -> record
    sync_lock,          \* self.sync_lock: NoThread or the thread holding it
    pc,                 \* per caller: position in execute_synchronized_analysis
    session_id,         \* per caller: the session_id argument
    progress_callback,  \* per caller: TRUE iff a progress callback was supplied
    component_results,  \* per caller: what execute_components returned
    final_results,      \* per caller: the local final_results
    consolidated_report,\* per caller: the local consolidated_report
    execution_time,     \* per caller: the local execution_time
    error,              \* per caller: the exception the critical handler caught
    logged,             \* per caller: salvar_erro calls made by this run
    stages,             \* per caller: the stages this run has entered, in order
    envelope,           \* per caller: the value returned to the caller
    d_pc,               \* SpecData: which helper has been applied
    d_component,        \* SpecData: component_results argument
    d_master,           \* SpecData: master_results argument
    d_out,              \* SpecData: the helper's return value
    d_service_status,   \* SpecData: service_status argument of _consolidate_all_results
    d_report,           \* SpecData: the reports returned by _consolidate_all_results
    x_pc,               \* SpecExec: registering, running or done
    x_calls,            \* SpecExec: register_component calls made so far
    x_registered,       \* SpecExec: the executor's units, name -> dependencies
    x_status,           \* SpecExec: per unit: pending, successful, failed or skipped
    x_invoked,          \* SpecExec: per unit: times its operation was invoked
    x_stats,            \* SpecExec: execution_stats of the finished run
    o_pc,               \* SpecOps: input, searched or returned
    o_name,             \* SpecOps: the registered operation applied
    o_outcome,          \* SpecOps: what the operation's collaborator does
    o_posts,            \* SpecOps: per platform, what its search does
    o_result,           \* SpecOps: the operation's return value
    m_pc,               \* SpecDrivers: input, padding or returned
    m_generator,        \* SpecDrivers: what generate_custom_drivers does
    m_drivers,          \* SpecDrivers: drivers['drivers'] during the loop
    m_result,           \* SpecDrivers: the operation's return value
    w_pc,               \* SpecWebSearch: input, checked, counting or returned
    w_primary,          \* SpecWebSearch: what search_with_fallback does
    w_secondary,        \* SpecWebSearch: what the secondary coordinator does
    w_current,          \* SpecWebSearch: the local search_results
    w_called,           \* SpecWebSearch: TRUE iff the coordinator was called
    w_result,           \* SpecWebSearch: the operation's return value
    s_pc,               \* SpecStatus: input, queried or returned
    s_provider,         \* SpecStatus: what ai_manager.get_provider_status does
    s_status,           \* SpecStatus: the local status dict
    q_pc,               \* SpecSupadata: input, requesting, responded or returned
    q_platform,         \* SpecSupadata: which search_<platform> is called
    q_available,        \* SpecSupadata: self.is_available
    q_attempts,         \* SpecSupadata: what each HTTP attempt does, in order
    q_body,             \* SpecSupadata: the body of a response
    q_attempt,          \* SpecSupadata: the loop variable of _make_request
    q_log,              \* SpecSupadata: the attempts made, and whether each slept
    q_response,         \* SpecSupadata: what _make_request gave the search
    q_result            \* SpecSupadata: the search's return value

vars == <<execution_state, sync_lock, pc, session_id, progress_callback,
          component_results, final_results, consolidated_report,
          execution_time, error, logged, stages, envelope,
          d_pc, d_component, d_master, d_out, d_service_status, d_report,
          x_pc, x_calls, x_registered, x_status, x_invoked, x_stats,
          o_pc, o_name, o_outcome, o_posts, o_result,
          m_pc, m_generator, m_drivers, m_result,
          w_pc, w_primary, w_secondary, w_current, w_called, w_result,
          s_pc, s_provider, s_status,
          q_pc, q_platform, q_available, q_attempts, q_body, q_attempt, q_log,
          q_response, q_result>>

runVars == <<execution_state, sync_lock, pc, session_id, progress_callback,
             component_results, final_results, consolidated_report,
             execution_time, error, logged, stages, envelope>>

dataVars == <<d_pc, d_component, d_master, d_out, d_service_status, d_report>>

execVars == <<x_pc, x_calls, x_registered, x_status, x_invoked, x_stats>>

opVars == <<o_pc, o_name, o_outcome, o_posts, o_result>>

driverVars == <<m_pc, m_generator, m_drivers, m_result>>

webVars == <<w_pc, w_primary, w_secondary, w_current, w_called, w_result>>

statusVars == <<s_pc, s_provider, s_status>>

requestVars == <<q_pc, q_platform, q_available, q_attempts, q_body, q_attempt, q_log,
                 q_response, q_result>>

helperVars == <<driverVars, webVars, statusVars, requestVars>>

coreVars == <<runVars, dataVars, execVars, opVars>>

unitVars == <<execVars, opVars, helperVars>>

----------------------------------------------------------------------------
(* Bounds *)

MaxRuns == 2        \* calls of execute_synchronized_analysis (one per caller)
NumSessions == 2    \* distinct session ids callers may pass
MaxDuration == 2    \* execution_time values time.time() - start_time may give
MaxComps == 2       \* component names in the result sets of SpecData
MaxConsolidations == 2  \* calls of _consolidate_all_results in SpecData
MaxPosts == 2       \* posts a platform search returns in SpecOps
MaxGenerated == 20  \* entries generate_custom_drivers returns in SpecDrivers
MaxResults == 6     \* items a search returns in SpecWebSearch
MaxProviders == 14  \* entries of get_provider_status() in SpecStatus

Threads == 1..MaxRuns
SessionIds == 1..NumSessions
Durations == 1..MaxDuration
NoThread == 0

----------------------------------------------------------------------------
(* Python dict helpers *)

EmptyDict == <<>>

\* k in d
HasKey(d, k) == k \in DOMAIN d

\* d[k] = v
SetKey(d, k, v) == [x \in DOMAIN d \cup {k} |-> IF x = k THEN v ELSE d[x]]

\* dict.update(other): other's entries win
DictUpdate(d, other) ==
    [x \in DOMAIN d \cup DOMAIN other |-> IF x \in DOMAIN other THEN other[x] ELSE d[x]]

\* truthiness of a dict: non-empty
Truthy(d) == DOMAIN d # {}

----------------------------------------------------------------------------
(* Registered components *)

RegistrationCallsDependentFirst ==
    << [name |-> "social_analysis",    dependencies |-> {"web_search"}],
       [name |-> "web_search",         dependencies |-> {}],
       [name |-> "mental_drivers",     dependencies |-> {"web_search", "social_analysis"}],
       [name |-> "visual_proofs",      dependencies |-> {"mental_drivers"}],
       [name |-> "anti_objection",     dependencies |-> {"mental_drivers"}],
       [name |-> "pre_pitch",          dependencies |-> {"mental_drivers", "anti_objection"}],
       [name |-> "future_predictions", dependencies |-> {"web_search", "social_analysis"}],
       [name |-> "avatar_detalhado",   dependencies |-> {"web_search", "social_analysis"}] >>

\* the register_component calls of _register_all_components, in order
RegistrationCalls ==
    << [name |-> "web_search",         dependencies |-> {}],
       [name |-> "social_analysis",    dependencies |-> {"web_search"}],
       [name |-> "mental_drivers",     dependencies |-> {"web_search", "social_analysis"}],
       [name |-> "visual_proofs",      dependencies |-> {"mental_drivers"}],
       [name |-> "anti_objection",     dependencies |-> {"mental_drivers"}],
       [name |-> "pre_pitch",          dependencies |-> {"mental_drivers", "anti_objection"}],
       [name |-> "future_predictions", dependencies |-> {"web_search", "social_analysis"}],
       [name |-> "avatar_detalhado",   dependencies |-> {"web_search", "social_analysis"}] >>

RegisteredNames == {RegistrationCalls[i].name : i \in 1..Len(RegistrationCalls)}

\* the names result sets of SpecData range over: the first MaxComps registered
CompNames == {RegistrationCalls[i].name : i \in 1..MaxComps}

----------------------------------------------------------------------------
(* Component results: a value is a dict (with or without an 'error' key)   *)
(* tagged with the pipeline that produced it.                              *)

ComponentValue(type, origin, err) == [type |-> type, origin |-> origin, error |-> err]

\* the 'error' entry of a result: no key, a falsy value ('' or None), a message
ErrorEntries == {"absent", "empty", "set"}

StrictValues == {ComponentValue("dict", "component", e) : e \in ErrorEntries}
MasterValues == {ComponentValue("dict", "master", e) : e \in ErrorEntries}
                   \cup {ComponentValue("str", "master", "absent")}

\* all dicts from a subset of names to the given values
DictsOver(names, values) == UNION {[ks -> values] : ks \in SUBSET names}

----------------------------------------------------------------------------
(* _combine_orchestrator_results *)

\* the loop of lines 549-551: master fills only the names not yet present
FillMissingMasterOverrides(final_components, master_components) ==
    DictUpdate(final_components, master_components)

FillMissingSkipped(final_components, master_components) ==
    final_components

FillMissing(final_components, master_components) ==
    [x \in DOMAIN final_components \cup DOMAIN master_components |->
        IF x \in DOMAIN final_components THEN final_components[x]
                                         ELSE master_components[x]]

CombineOrchestratorResults(comp, master, sid) ==
    LET fc0 == EmptyDict
        fc1 == IF HasKey(comp, "successful_components") /\ Truthy(comp.successful_components)
               THEN DictUpdate(fc0, comp.successful_components)
               ELSE fc0
        fc2 == IF HasKey(master, "components") /\ Truthy(master.components)
               THEN FillMissing(fc1, master.components)
               ELSE fc1
    IN  [component_results |-> comp,
         master_results |-> master,
         combination_strategy |-> "hybrid",
         session_id |-> sid,
         final_components |-> fc2]

(* _enhance_component_results *)
EnhanceComponentResults(comp, sid) ==
    LET enhanced == [base_results |-> comp,
                     enhancement_applied |-> TRUE,
                     session_id |-> sid]
    IN  IF HasKey(comp, "successful_components") /\ Truthy(comp.successful_components)
        THEN SetKey(SetKey(enhanced, "components", comp.successful_components),
                    "success_rate", comp.execution_stats.success_rate)
        ELSE enhanced

----------------------------------------------------------------------------
(* SpecData: the helpers applied to bounded inputs *)

Rates == {0, 49, 50, 100}

ComponentResultsOver(names) ==
    {[successful_components |-> sc, execution_stats |-> [success_rate |-> r]] :
        sc \in DictsOver(names, StrictValues), r \in Rates}

MasterResultsOver(names) ==
    {[components |-> mc] : mc \in DictsOver(names, MasterValues)}
      \cup {[session_id |-> 0]}

----------------------------------------------------------------------------
(* _check_all_services_status: the snapshot when get_provider_status gives *)
(* ai_status (a dict of provider -> tag).                                  *)

IsAvailable(tag) == tag \in {"available", "ready"}

HealthOfStrictThresholds(available, total) ==
    IF total = 0 THEN "unknown"
    ELSE IF available * 100 > 70 * total THEN "excellent"
    ELSE IF available * 100 > 50 * total THEN "good"
    ELSE IF available * 100 > 30 * total THEN "fair"
    ELSE "poor"

\* lines 314-323; (available / total) * 100 in floating point compares with 70,
\* 50 and 30 as the integers do: 0.7 * 100, 0.5 * 100 and 0.3 * 100 round to
\* 70.0, 50.0 and 30.0
HealthOf(available, total) ==
    IF total = 0 THEN "unknown"
    ELSE IF available * 100 >= 70 * total THEN "excellent"
    ELSE IF available * 100 >= 50 * total THEN "good"
    ELSE IF available * 100 >= 30 * total THEN "fair"
    ELSE "poor"

CheckAllServicesStatus(ai_status) ==
    LET search_engines == [e \in {"exa", "google", "serper", "bing"} |-> "available"]
        content_extractors == [e \in {"jina_reader", "basic_extraction"} |->
                                  IF e = "jina_reader" THEN "needs_key" ELSE "available"]
        Count(d) == Cardinality({k \in DOMAIN d : IsAvailable(d[k])})
        total == Cardinality(DOMAIN ai_status) + Cardinality(DOMAIN search_engines)
                   + Cardinality(DOMAIN content_extractors)
        available == Count(ai_status) + Count(search_engines) + Count(content_extractors)
    IN  [ai_providers |-> ai_status,
         search_engines |-> search_engines,
         content_extractors |-> content_extractors,
         social_platforms |-> EmptyDict,
         overall_health |-> HealthOf(available, total)]

\* the snapshot of a run: get_provider_status raised, so ai_providers = {'error': str(e)}
ServiceStatusOfRun == CheckAllServicesStatus([k \in {"error"} |-> "provider status failed"])

----------------------------------------------------------------------------
(* _merge_enhanced_results, _consolidate_all_results *)

MergeEnhancedResultsAsComponents(base_results, enhanced_results) ==
    IF Truthy(enhanced_results)
    THEN SetKey(base_results, "components", EmptyDict)
    ELSE base_results

MergeEnhancedResults(base_results, enhanced_results) ==
    IF Truthy(enhanced_results)
    THEN SetKey(SetKey(SetKey(base_results,
            "enhanced_analysis", enhanced_results),
            "psychological_insights", EmptyDict),
            "ultra_detailed_avatar", EmptyDict)
    ELSE base_results

\* results.get('components', {}), else results['final_components'] when non-empty
ComponentsOf(results) ==
    LET components == IF HasKey(results, "components") THEN results.components ELSE EmptyDict
    IN  IF ~Truthy(components) /\ HasKey(results, "final_components")
                               /\ Truthy(results.final_components)
        THEN results.final_components
        ELSE components

\* c.get('error') on a value that is not a dict raises AttributeError
ConsolidateRaises(results) ==
    \E n \in DOMAIN ComponentsOf(results) : ComponentsOf(results)[n].type # "dict"

ConsolidateAllResultsClockInVersion(results, service_status, sid, now) ==
    LET components == ComponentsOf(results)
    IN  [session_id |-> sid,
         timestamp |-> now,
         service_status |-> service_status,
         analysis_results |-> results,
         consolidation_version |-> now,
         components |-> components,
         metrics |-> [total_components |-> Cardinality(DOMAIN components),
                      successful_components |->
                          Cardinality({n \in DOMAIN components :
                                          components[n].error \in {"absent", "empty"}}),
                      service_health |-> IF HasKey(service_status, "overall_health")
                                         THEN service_status.overall_health
                                         ELSE "unknown"]]

\* lines 602-624; now is the value of datetime.now()
ConsolidateAllResults(results, service_status, sid, now) ==
    LET components == ComponentsOf(results)
    IN  [session_id |-> sid,
         timestamp |-> now,
         service_status |-> service_status,
         analysis_results |-> results,
         consolidation_version |-> "2.0",
         components |-> components,
         metrics |-> [total_components |-> Cardinality(DOMAIN components),
                      successful_components |->
                          Cardinality({n \in DOMAIN components :
                                          components[n].error \in {"absent", "empty"}}),
                      service_health |-> IF HasKey(service_status, "overall_health")
                                         THEN service_status.overall_health
                                         ELSE "unknown"]]

----------------------------------------------------------------------------
(* SpecData: initial states and steps *)

InitRunIdle ==
    /\ execution_state = EmptyDict
    /\ sync_lock = NoThread
    /\ pc = [t \in Threads |-> "idle"]
    /\ session_id = [t \in Threads |-> 0]
    /\ progress_callback = [t \in Threads |-> FALSE]
    /\ component_results = [t \in Threads |-> EmptyDict]
    /\ final_results = [t \in Threads |-> EmptyDict]
    /\ consolidated_report = [t \in Threads |-> EmptyDict]
    /\ execution_time = [t \in Threads |-> 0]
    /\ error = [t \in Threads |-> "none"]
    /\ logged = [t \in Threads |-> <<>>]
    /\ stages = [t \in Threads |-> <<>>]
    /\ envelope = [t \in Threads |-> EmptyDict]

\* service_status arguments: the snapshot of a run, or a dict without overall_health
ServiceStatusInputs == {ServiceStatusOfRun, EmptyDict}

\* the helpers of the later specifications at rest
InitDriversIdle ==
    /\ m_pc = "off"
    /\ m_generator = EmptyDict
    /\ m_drivers = <<>>
    /\ m_result = EmptyDict

InitWebIdle ==
    /\ w_pc = "off"
    /\ w_primary = EmptyDict
    /\ w_secondary = EmptyDict
    /\ w_current = EmptyDict
    /\ w_called = FALSE
    /\ w_result = EmptyDict

InitStatusIdle ==
    /\ s_pc = "off"
    /\ s_provider = EmptyDict
    /\ s_status = EmptyDict

InitSupadataIdle ==
    /\ q_pc = "off"
    /\ q_platform = ""
    /\ q_available = FALSE
    /\ q_attempts = <<>>
    /\ q_body = EmptyDict
    /\ q_attempt = 0
    /\ q_log = <<>>
    /\ q_response = EmptyDict
    /\ q_result = EmptyDict

InitHelpersIdle ==
    /\ InitDriversIdle
    /\ InitWebIdle
    /\ InitStatusIdle
    /\ InitSupadataIdle

\* the executor and the operations at rest: what Spec, SpecSeq and SpecData keep
InitUnitsIdle ==
    /\ InitHelpersIdle
    /\ x_pc = "off"
    /\ x_calls = 0
    /\ x_registered = EmptyDict
    /\ x_status = EmptyDict
    /\ x_invoked = EmptyDict
    /\ x_stats = EmptyDict
    /\ o_pc = "off"
    /\ o_name = ""
    /\ o_outcome = ""
    /\ o_posts = EmptyDict
    /\ o_result = EmptyDict

InitData ==
    /\ InitRunIdle
    /\ InitUnitsIdle
    /\ d_pc = "input"
    /\ d_component \in ComponentResultsOver(CompNames)
    /\ d_master \in MasterResultsOver(CompNames)
    /\ d_out = EmptyDict
    /\ d_service_status \in ServiceStatusInputs
    /\ d_report = <<>>

DataCombine ==
    /\ d_pc = "input"
    /\ d_out' = CombineOrchestratorResults(d_component, d_master, 1)
    /\ d_pc' = "combined"
    /\ UNCHANGED <<d_component, d_master, d_service_status, d_report, runVars, unitVars>>

DataEnhance ==
    /\ d_pc = "input"
    /\ d_out' = EnhanceComponentResults(d_component, 1)
    /\ d_pc' = "enhanced"
    /\ UNCHANGED <<d_component, d_master, d_service_status, d_report, runVars, unitVars>>

\* _consolidate_all_results called on the helper's output, up to MaxConsolidations
\* times with the same arguments; datetime.now() is the number of the call
DataConsolidate ==
    /\ d_pc \in {"combined", "enhanced"}
    /\ Len(d_report) < MaxConsolidations
    /\ \/ /\ ConsolidateRaises(d_out)
          /\ d_pc' = "raised"
          /\ UNCHANGED d_report
       \/ /\ ~ConsolidateRaises(d_out)
          /\ d_report' = Append(d_report,
                ConsolidateAllResults(d_out, d_service_status, 1, Len(d_report) + 1))
          /\ UNCHANGED d_pc
    /\ UNCHANGED <<d_component, d_master, d_out, d_service_status, runVars, unitVars>>

\* enhanced_orchestrator.execute_ultra_enhanced_analysis
EnhancedOutcomes == {[psychological_insights |-> EmptyDict]}

\* _merge_enhanced_results applied to the helper's output (line 211)
DataMerge ==
    /\ d_pc \in {"combined", "enhanced"}
    /\ ~HasKey(d_out, "enhanced_analysis")
    /\ d_report = <<>>
    /\ \E e \in EnhancedOutcomes : d_out' = MergeEnhancedResults(d_out, e)
    /\ UNCHANGED <<d_pc, d_component, d_master, d_service_status, d_report, runVars,
                   unitVars>>

NextData == DataCombine \/ DataEnhance \/ DataMerge \/ DataConsolidate

SpecData == InitData /\ [][NextData]_vars

----------------------------------------------------------------------------
(* _generate_emergency_fallback *)

EmergencyComponentNamesShort ==
    {"web_search", "social_analysis", "mental_drivers", "visual_proofs",
     "anti_objection", "pre_pitch", "future_predictions"}

EmergencyComponentNames ==
    {"web_search", "social_analysis", "mental_drivers", "visual_proofs",
     "anti_objection", "pre_pitch", "future_predictions", "avatar_detalhado"}

\* (the segmento / produto texts copied from data are left out: data is opaque here)
GenerateEmergencyFallback(sid) ==
    [success |-> FALSE,
     session_id |-> sid,
     error |-> "Falha critica no Super Orchestrator",
     fallback_report |->
        [status |-> "Analise basica de emergencia",
         components |-> [n \in EmergencyComponentNames |->
                            ComponentValue("dict", "emergency",
                                IF n = "mental_drivers" THEN "absent" ELSE "set")]],
     sync_status |-> "EMERGENCY_FALLBACK"]

SuccessEnvelopeFailsOnErrors(sid, exec_time, comp, report) ==
    [success |-> report.metrics.successful_components = report.metrics.total_components,
     session_id |-> sid,
     execution_time |-> exec_time,
     service_status |-> ServiceStatusOfRun,
     component_success_rate |-> comp.execution_stats.success_rate,
     total_components |-> Cardinality(DOMAIN comp.successful_components),
     report |-> report,
     orchestrators_used |-> <<"master", "component", "enhanced",
                              "search_coordinator", "production_search">>,
     sync_status |-> "PERFECT_SYNC"]

\* the dict returned at lines 240-250
SuccessEnvelope(sid, exec_time, comp, report) ==
    [success |-> TRUE,
     session_id |-> sid,
     execution_time |-> exec_time,
     service_status |-> ServiceStatusOfRun,
     component_success_rate |-> comp.execution_stats.success_rate,
     total_components |-> Cardinality(DOMAIN comp.successful_components),
     report |-> report,
     orchestrators_used |-> <<"master", "component", "enhanced",
                              "search_coordinator", "production_search">>,
     sync_status |-> "PERFECT_SYNC"]

----------------------------------------------------------------------------
(* What the collaborators of a run may return *)

SuccessThreshold == 50

\* line 181
NeedsFallbackInclusive(comp) == comp.execution_stats.success_rate <= SuccessThreshold

NeedsFallback(comp) == comp.execution_stats.success_rate < SuccessThreshold

\* component_orchestrator.execute_components: one successful component, and a
\* success rate on either side of the threshold
ExecutorOutcomes ==
    {[successful_components |->
          [n \in {"web_search"} |-> ComponentValue("dict", "component", "absent")],
      execution_stats |-> [success_rate |-> r]] :
        r \in {SuccessThreshold - 1, SuccessThreshold}}

\* master_orchestrator.execute_comprehensive_analysis: well-formed components (one
\* of them carrying an 'error' entry), or a component whose value is not a dict
MasterOutcomes ==
    { [components |-> [n \in {"web_search", "social_analysis"} |->
                          ComponentValue("dict", "master",
                              IF n = "social_analysis" THEN "set" ELSE "absent")]],
      [components |-> [n \in {"social_analysis"} |->
                          ComponentValue("str", "master", "absent")]] }

----------------------------------------------------------------------------
(* execute_synchronized_analysis *)

RunningRecord ==
    [status |-> "running", start_time |-> "start",
     components_completed |-> <<>>, errors |-> <<>>]

\* an exception reaches the handler of line 252
Raise(t, e) ==
    /\ pc' = [pc EXCEPT ![t] = "critical"]
    /\ error' = [error EXCEPT ![t] = e]

\* progress_callback(step, message) raises
CallbackRaises(t) ==
    /\ progress_callback[t]
    /\ Raise(t, "progress_callback")

Enter(t, stage) == stages' = [stages EXCEPT ![t] = Append(@, stage)]

SalvarErro(t, name, e) == logged' = [logged EXCEPT ![t] = Append(@, <<name, e>>)]

\* the call: lines 140-150
Start(t) ==
    /\ pc[t] = "idle"
    /\ \A u \in Threads : u < t => pc[u] # "idle"   \* callers are numbered in call order
    /\ \E s \in SessionIds, cb \in BOOLEAN :
          /\ session_id' = [session_id EXCEPT ![t] = s]
          /\ progress_callback' = [progress_callback EXCEPT ![t] = cb]
    /\ pc' = [pc EXCEPT ![t] = "lock_begin"]
    /\ UNCHANGED <<execution_state, sync_lock, component_results, final_results,
                   consolidated_report, execution_time, error, logged, stages,
                   envelope, dataVars, unitVars>>

AcquireBeginNoLock(t) ==
    /\ pc[t] = "lock_begin"
    /\ pc' = [pc EXCEPT ![t] = "write_begin"]
    /\ UNCHANGED <<execution_state, sync_lock, session_id, progress_callback,
                   component_results, final_results, consolidated_report,
                   execution_time, error, logged, stages, envelope, dataVars, unitVars>>

\* with self.sync_lock (line 152)
AcquireBegin(t) ==
    /\ pc[t] = "lock_begin"
    /\ sync_lock = NoThread
    /\ sync_lock' = t
    /\ pc' = [pc EXCEPT ![t] = "write_begin"]
    /\ UNCHANGED <<execution_state, session_id, progress_callback, component_results,
                   final_results, consolidated_report, execution_time, error, logged,
                   stages, envelope, dataVars, unitVars>>

WriteBeginKeepsLock(t) ==
    /\ pc[t] = "write_begin"
    /\ execution_state' = SetKey(execution_state, session_id[t], RunningRecord)
    /\ Enter(t, "INIT")
    /\ pc' = [pc EXCEPT ![t] = "save_start"]
    /\ UNCHANGED <<sync_lock, session_id, progress_callback, component_results,
                   final_results, consolidated_report, execution_time, error, logged,
                   envelope, dataVars, unitVars>>

\* lines 153-158, and the lock's release
WriteBegin(t) ==
    /\ pc[t] = "write_begin"
    /\ execution_state' = SetKey(execution_state, session_id[t], RunningRecord)
    /\ sync_lock' = NoThread
    /\ Enter(t, "INIT")
    /\ pc' = [pc EXCEPT ![t] = "save_start"]
    /\ UNCHANGED <<session_id, progress_callback, component_results, final_results,
                   consolidated_report, execution_time, error, logged, envelope, dataVars, unitVars>>

\* salvar_etapa("super_orchestrator_iniciado", ...) (lines 160-166)
SaveStart(t) ==
    /\ pc[t] = "save_start"
    /\ \/ /\ pc' = [pc EXCEPT ![t] = "phase1"]
          /\ UNCHANGED error
       \/ Raise(t, "salvar_etapa")
    /\ UNCHANGED <<execution_state, sync_lock, session_id, progress_callback,
                   component_results, final_results, consolidated_report,
                   execution_time, logged, stages, envelope, dataVars, unitVars>>

\* FASE 1 (lines 168-172)
ServiceCheck(t) ==
    /\ pc[t] = "phase1"
    /\ \/ /\ CallbackRaises(t)
          /\ UNCHANGED stages
       \/ /\ Enter(t, "SERVICE_CHECK")
          /\ pc' = [pc EXCEPT ![t] = "phase2"]
          /\ UNCHANGED error
    /\ UNCHANGED <<execution_state, sync_lock, session_id, progress_callback,
                   component_results, final_results, consolidated_report,
                   execution_time, logged, envelope, dataVars, unitVars>>

\* FASE 2 (lines 174-178)
StrictExecution(t) ==
    /\ pc[t] = "phase2"
    /\ \/ /\ CallbackRaises(t)
          /\ UNCHANGED <<stages, component_results>>
       \/ /\ Enter(t, "STRICT_EXECUTION")
          /\ Raise(t, "component_orchestrator")
          /\ UNCHANGED component_results
       \/ /\ Enter(t, "STRICT_EXECUTION")
          /\ \E r \in ExecutorOutcomes :
                component_results' = [component_results EXCEPT ![t] = r]
          /\ pc' = [pc EXCEPT ![t] = "phase3"]
          /\ UNCHANGED error
    /\ UNCHANGED <<execution_state, sync_lock, session_id, progress_callback,
                   final_results, consolidated_report, execution_time, logged,
                   envelope, dataVars, unitVars>>

\* FASE 3, low success rate (lines 181-194)
FallbackMerge(t) ==
    /\ pc[t] = "phase3"
    /\ NeedsFallback(component_results[t])
    /\ \/ /\ CallbackRaises(t)
          /\ UNCHANGED <<stages, final_results>>
       \/ /\ Enter(t, "FALLBACK_MERGE")
          /\ Raise(t, "master_orchestrator")
          /\ UNCHANGED final_results
       \/ /\ Enter(t, "FALLBACK_MERGE")
          /\ \E m \in MasterOutcomes :
                final_results' = [final_results EXCEPT ![t] =
                    CombineOrchestratorResults(component_results[t], m, session_id[t])]
          /\ pc' = [pc EXCEPT ![t] = "phase4"]
          /\ UNCHANGED error
    /\ UNCHANGED <<execution_state, sync_lock, session_id, progress_callback,
                   component_results, consolidated_report, execution_time, logged,
                   envelope, dataVars, unitVars>>

PassthroughSkipsEnrichment(t) ==
    /\ pc[t] = "phase3"
    /\ ~NeedsFallback(component_results[t])
    /\ Enter(t, "PASSTHROUGH")
    /\ final_results' = [final_results EXCEPT ![t] =
            EnhanceComponentResults(component_results[t], session_id[t])]
    /\ pc' = [pc EXCEPT ![t] = "phase5"]
    /\ UNCHANGED <<execution_state, sync_lock, session_id, progress_callback,
                   component_results, consolidated_report, execution_time, error,
                   logged, envelope, dataVars, unitVars>>

\* FASE 3, otherwise (lines 196-200)
Passthrough(t) ==
    /\ pc[t] = "phase3"
    /\ ~NeedsFallback(component_results[t])
    /\ Enter(t, "PASSTHROUGH")
    /\ final_results' = [final_results EXCEPT ![t] =
            EnhanceComponentResults(component_results[t], session_id[t])]
    /\ pc' = [pc EXCEPT ![t] = "phase4"]
    /\ UNCHANGED <<execution_state, sync_lock, session_id, progress_callback,
                   component_results, consolidated_report, execution_time, error,
                   logged, envelope, dataVars, unitVars>>

\* FASE 4 (lines 202-215)
Enrichment(t) ==
    /\ pc[t] = "phase4"
    /\ \/ /\ CallbackRaises(t)
          /\ UNCHANGED <<stages, final_results, logged>>
       \/ /\ Enter(t, "ENRICHMENT")
          /\ \E e \in EnhancedOutcomes :
                final_results' = [final_results EXCEPT ![t] = MergeEnhancedResults(@, e)]
          /\ pc' = [pc EXCEPT ![t] = "phase5"]
          /\ UNCHANGED <<error, logged>>
       \/ \* the call raises, salvar_erro returns
          /\ Enter(t, "ENRICHMENT")
          /\ SalvarErro(t, "enhanced_orchestrator_error", "enhanced_orchestrator")
          /\ pc' = [pc EXCEPT ![t] = "phase5"]
          /\ UNCHANGED <<error, final_results>>
       \/ \* the call raises, and salvar_erro raises in the handler
          /\ Enter(t, "ENRICHMENT")
          /\ SalvarErro(t, "enhanced_orchestrator_error", "enhanced_orchestrator")
          /\ Raise(t, "salvar_erro")
          /\ UNCHANGED final_results
    /\ UNCHANGED <<execution_state, sync_lock, session_id, progress_callback,
                   component_results, consolidated_report, execution_time,
                   envelope, dataVars, unitVars>>

\* FASE 5 (lines 217-223)
Consolidation(t) ==
    /\ pc[t] = "phase5"
    /\ \/ /\ CallbackRaises(t)
          /\ UNCHANGED <<stages, consolidated_report>>
       \/ /\ ConsolidateRaises(final_results[t])
          /\ Enter(t, "CONSOLIDATION")
          /\ Raise(t, "consolidate")
          /\ UNCHANGED consolidated_report
       \/ /\ ~ConsolidateRaises(final_results[t])
          /\ Enter(t, "CONSOLIDATION")
          /\ consolidated_report' = [consolidated_report EXCEPT ![t] =
                ConsolidateAllResults(final_results[t], ServiceStatusOfRun,
                                      session_id[t], "now")]
          /\ pc' = [pc EXCEPT ![t] = "phase6"]
          /\ UNCHANGED error
    /\ UNCHANGED <<execution_state, sync_lock, session_id, progress_callback,
                   component_results, final_results, execution_time, logged,
                   envelope, dataVars, unitVars>>

PersistencePropagates(t) ==
    /\ pc[t] = "phase6"
    /\ \/ /\ CallbackRaises(t)
          /\ UNCHANGED <<stages, logged, execution_time>>
       \/ /\ Enter(t, "PERSISTENCE")
          /\ \E d \in Durations : execution_time' = [execution_time EXCEPT ![t] = d]
          /\ pc' = [pc EXCEPT ![t] = "lock_done"]
          /\ UNCHANGED <<error, logged>>
       \/ /\ Enter(t, "PERSISTENCE")
          /\ SalvarErro(t, "erro_salvamento_relatorio", "salvar_etapa")
          /\ Raise(t, "salvar_etapa")
          /\ UNCHANGED execution_time
    /\ UNCHANGED <<execution_state, sync_lock, session_id, progress_callback,
                   component_results, final_results, consolidated_report,
                   envelope, dataVars, unitVars>>

\* FASE 6: _save_to_all_categories, then execution_time (lines 225-231)
Persistence(t) ==
    /\ pc[t] = "phase6"
    /\ \/ /\ CallbackRaises(t)
          /\ UNCHANGED <<stages, logged, execution_time>>
       \/ \* every salvar_etapa returns
          /\ Enter(t, "PERSISTENCE")
          /\ \E d \in Durations : execution_time' = [execution_time EXCEPT ![t] = d]
          /\ pc' = [pc EXCEPT ![t] = "lock_done"]
          /\ UNCHANGED <<error, logged>>
       \/ \* a salvar_etapa raises, salvar_erro returns (lines 642-644)
          /\ Enter(t, "PERSISTENCE")
          /\ SalvarErro(t, "erro_salvamento_relatorio", "salvar_etapa")
          /\ \E d \in Durations : execution_time' = [execution_time EXCEPT ![t] = d]
          /\ pc' = [pc EXCEPT ![t] = "lock_done"]
          /\ UNCHANGED error
       \/ \* a salvar_etapa raises, and salvar_erro raises in the handler
          /\ Enter(t, "PERSISTENCE")
          /\ SalvarErro(t, "erro_salvamento_relatorio", "salvar_etapa")
          /\ Raise(t, "salvar_erro")
          /\ UNCHANGED execution_time
    /\ UNCHANGED <<execution_state, sync_lock, session_id, progress_callback,
                   component_results, final_results, consolidated_report,
                   envelope, dataVars, unitVars>>

\* with self.sync_lock (line 234)
AcquireDone(t) ==
    /\ pc[t] = "lock_done"
    /\ sync_lock = NoThread
    /\ sync_lock' = t
    /\ pc' = [pc EXCEPT ![t] = "write_done_status"]
    /\ UNCHANGED <<execution_state, session_id, progress_callback, component_results,
                   final_results, consolidated_report, execution_time, error, logged,
                   stages, envelope, dataVars, unitVars>>

WriteDoneStatusReleasesLock(t) ==
    /\ pc[t] = "write_done_status"
    /\ execution_state' = [execution_state EXCEPT ![session_id[t]] =
                              SetKey(@, "status", "completed")]
    /\ sync_lock' = NoThread
    /\ pc' = [pc EXCEPT ![t] = "lock_done_time"]
    /\ UNCHANGED <<session_id, progress_callback, component_results,
                   final_results, consolidated_report, execution_time, error, logged,
                   stages, envelope, dataVars, unitVars>>

\* line 235
WriteDoneStatus(t) ==
    /\ pc[t] = "write_done_status"
    /\ execution_state' = [execution_state EXCEPT ![session_id[t]] =
                              SetKey(@, "status", "completed")]
    /\ pc' = [pc EXCEPT ![t] = "write_done_time"]
    /\ UNCHANGED <<sync_lock, session_id, progress_callback, component_results,
                   final_results, consolidated_report, execution_time, error, logged,
                   stages, envelope, dataVars, unitVars>>

\* line 236, and the lock's release
WriteDoneTime(t) ==
    /\ pc[t] = "write_done_time"
    /\ execution_state' = [execution_state EXCEPT ![session_id[t]] =
                              SetKey(@, "execution_time", execution_time[t])]
    /\ sync_lock' = NoThread
    /\ Enter(t, "DONE")
    /\ pc' = [pc EXCEPT ![t] = "return_ok"]
    /\ UNCHANGED <<session_id, progress_callback, component_results, final_results,
                   consolidated_report, execution_time, error, logged, envelope, dataVars, unitVars>>

\* lines 238-250
ReturnOk(t) ==
    /\ pc[t] = "return_ok"
    /\ envelope' = [envelope EXCEPT ![t] =
            SuccessEnvelope(session_id[t], execution_time[t], component_results[t],
                            consolidated_report[t])]
    /\ pc' = [pc EXCEPT ![t] = "returned"]
    /\ UNCHANGED <<execution_state, sync_lock, session_id, progress_callback,
                   component_results, final_results, consolidated_report,
                   execution_time, error, logged, stages, dataVars, unitVars>>

\* except Exception as e: salvar_erro("super_orchestrator_critico", e) (lines 252-254)
Critical(t) ==
    /\ pc[t] = "critical"
    /\ SalvarErro(t, "super_orchestrator_critico", error[t])
    /\ \/ pc' = [pc EXCEPT ![t] = "lock_fail"]
       \/ pc' = [pc EXCEPT ![t] = "raised"]    \* salvar_erro raises: nothing catches it
    /\ UNCHANGED <<execution_state, sync_lock, session_id, progress_callback,
                   component_results, final_results, consolidated_report,
                   execution_time, error, stages, envelope, dataVars, unitVars>>

WriteFailStatusClearsOthers(t) ==
    /\ pc[t] = "write_fail_status"
    /\ execution_state' = [s \in {session_id[t]} |->
                              SetKey(execution_state[s], "status", "failed")]
    /\ pc' = [pc EXCEPT ![t] = "write_fail_error"]
    /\ UNCHANGED <<sync_lock, session_id, progress_callback, component_results,
                   final_results, consolidated_report, execution_time, error, logged,
                   stages, envelope, dataVars, unitVars>>

\* with self.sync_lock (line 256)
AcquireFail(t) ==
    /\ pc[t] = "lock_fail"
    /\ sync_lock = NoThread
    /\ sync_lock' = t
    /\ pc' = [pc EXCEPT ![t] = "write_fail_status"]
    /\ UNCHANGED <<execution_state, session_id, progress_callback, component_results,
                   final_results, consolidated_report, execution_time, error, logged,
                   stages, envelope, dataVars, unitVars>>

\* line 257
WriteFailStatus(t) ==
    /\ pc[t] = "write_fail_status"
    /\ execution_state' = [execution_state EXCEPT ![session_id[t]] =
                              SetKey(@, "status", "failed")]
    /\ pc' = [pc EXCEPT ![t] = "write_fail_error"]
    /\ UNCHANGED <<sync_lock, session_id, progress_callback, component_results,
                   final_results, consolidated_report, execution_time, error, logged,
                   stages, envelope, dataVars, unitVars>>

\* line 258, and the lock's release
WriteFailError(t) ==
    /\ pc[t] = "write_fail_error"
    /\ execution_state' = [execution_state EXCEPT ![session_id[t]] =
                              SetKey(@, "error", error[t])]
    /\ sync_lock' = NoThread
    /\ pc' = [pc EXCEPT ![t] = "emergency"]
    /\ UNCHANGED <<session_id, progress_callback, component_results, final_results,
                   consolidated_report, execution_time, error, logged, stages,
                   envelope, dataVars, unitVars>>

\* line 260
EmergencyReturn(t) ==
    /\ pc[t] = "emergency"
    /\ Enter(t, "EMERGENCY_FALLBACK")
    /\ envelope' = [envelope EXCEPT ![t] = GenerateEmergencyFallback(session_id[t])]
    /\ pc' = [pc EXCEPT ![t] = "returned"]
    /\ UNCHANGED <<execution_state, sync_lock, session_id, progress_callback,
                   component_results, final_results, consolidated_report,
                   execution_time, error, logged, dataVars, unitVars>>

Init ==
    /\ InitRunIdle
    /\ InitUnitsIdle
    /\ d_pc = "input"
    /\ d_component = EmptyDict
    /\ d_master = EmptyDict
    /\ d_out = EmptyDict
    /\ d_service_status = EmptyDict
    /\ d_report = <<>>

\* one caller's steps through execute_synchronized_analysis
Run(t) ==
    \/ Start(t)
    \/ AcquireBegin(t)
    \/ WriteBegin(t)
    \/ SaveStart(t)
    \/ ServiceCheck(t)
    \/ StrictExecution(t)
    \/ FallbackMerge(t)
    \/ Passthrough(t)
    \/ Enrichment(t)
    \/ Consolidation(t)
    \/ Persistence(t)
    \/ AcquireDone(t)
    \/ WriteDoneStatus(t)
    \/ WriteDoneTime(t)
    \/ ReturnOk(t)
    \/ Critical(t)
    \/ AcquireFail(t)
    \/ WriteFailStatus(t)
    \/ WriteFailError(t)
    \/ EmergencyReturn(t)

Next == \E t \in Threads : Run(t)

\* concurrent callers, one call each
Spec == Init /\ [][Next]_vars

\* the caller has its result (or the exception) and the frame's locals are gone;
\* execution_state is kept, so the next call may reuse a session id
CallAgain(t) ==
    /\ pc[t] \in {"returned", "raised"}
    /\ pc' = [pc EXCEPT ![t] = "idle"]
    /\ session_id' = [session_id EXCEPT ![t] = 0]
    /\ progress_callback' = [progress_callback EXCEPT ![t] = FALSE]
    /\ component_results' = [component_results EXCEPT ![t] = EmptyDict]
    /\ final_results' = [final_results EXCEPT ![t] = EmptyDict]
    /\ consolidated_report' = [consolidated_report EXCEPT ![t] = EmptyDict]
    /\ execution_time' = [execution_time EXCEPT ![t] = 0]
    /\ error' = [error EXCEPT ![t] = "none"]
    /\ logged' = [logged EXCEPT ![t] = <<>>]
    /\ stages' = [stages EXCEPT ![t] = <<>>]
    /\ envelope' = [envelope EXCEPT ![t] = EmptyDict]
    /\ UNCHANGED <<execution_state, sync_lock, dataVars, unitVars>>

FirstCaller == CHOOSE t \in Threads : \A u \in Threads : t <= u

NextSeq == Run(FirstCaller) \/ CallAgain(FirstCaller)

\* a single caller making one call after another
SpecSeq == Init /\ [][NextSeq]_vars

TypeOK ==
    /\ sync_lock \in Threads \cup {NoThread}
    /\ DOMAIN execution_state \subseteq SessionIds
    /\ \A s \in DOMAIN execution_state :
          execution_state[s].status \in {"running", "completed", "failed"}


----------------------------------------------------------------------------
(* C2: a name present both in the strict successful_components and in the *)
(* alternate pipeline's components resolves in final_components to the     *)
(* strict value.                                                           *)
StrictPrecedence ==
    d_pc = "combined" =>
        \A n \in DOMAIN d_component.successful_components :
            (HasKey(d_master, "components") /\ n \in DOMAIN d_master.components)
                => /\ n \in DOMAIN d_out.final_components
                   /\ d_out.final_components[n] = d_component.successful_components[n]

StrictPrecedenceWitness ==
    /\ d_pc = "combined"
    /\ HasKey(d_master, "components")
    /\ \E n \in DOMAIN d_component.successful_components \cap DOMAIN d_master.components :
          /\ d_master.components[n] # d_component.successful_components[n]
          /\ d_out.final_components[n] = d_component.successful_components[n]

(* C3: after _combine_orchestrator_results the keys of final_components    *)
(* are exactly the strict successful names united with the alternate       *)
(* names, and a name missing from the strict set carries the alternate     *)
(* pipeline's value.                                                       *)
MergeIsUnion ==
    d_pc = "combined" =>
        LET sc == d_component.successful_components
            mc == IF HasKey(d_master, "components") THEN d_master.components ELSE EmptyDict
        IN  /\ DOMAIN d_out.final_components = DOMAIN sc \cup DOMAIN mc
            /\ \A n \in DOMAIN mc \ DOMAIN sc : d_out.final_components[n] = mc[n]

MergeIsUnionWitness ==
    /\ d_pc = "combined"
    /\ HasKey(d_master, "components")
    /\ DOMAIN d_component.successful_components # {}
    /\ \E n \in DOMAIN d_master.components \ DOMAIN d_component.successful_components :
          d_out.final_components[n] = d_master.components[n]

----------------------------------------------------------------------------
(* Claims about execute_synchronized_analysis (Spec) *)

Has(t, stage) == \E i \in 1..Len(stages[t]) : stages[t][i] = stage

Finished(t) == pc[t] \in {"returned", "raised"}

LoggedCall(t, name, e) == \E i \in 1..Len(logged[t]) : logged[t][i] = <<name, e>>

EnrichmentRaised(t) == LoggedCall(t, "enhanced_orchestrator_error", "enhanced_orchestrator")

(* C1: the alternate pipeline is invoked only when the strict executor's   *)
(* success_rate is below 50 and the pass-through path is taken only at 50  *)
(* and above; a run that has gone past FASE 3 has taken exactly one of the *)
(* two paths, the alternate one iff success_rate < 50.                     *)
FallbackIffLowRate ==
    \A t \in Threads :
        HasKey(component_results[t], "execution_stats") =>
            LET rate == component_results[t].execution_stats.success_rate
            IN  /\ Has(t, "FALLBACK_MERGE") => rate < 50
                /\ Has(t, "PASSTHROUGH") => rate >= 50
                /\ ~(Has(t, "FALLBACK_MERGE") /\ Has(t, "PASSTHROUGH"))
                /\ (pc[t] = "phase4" \/ Has(t, "ENRICHMENT")) =>
                      /\ Has(t, "FALLBACK_MERGE") <=> rate < 50
                      /\ Has(t, "PASSTHROUGH") <=> rate >= 50

\* a run at 49 has invoked the alternate pipeline and merged its results
FallbackIffLowRateWitness ==
    \E t \in Threads :
        /\ pc[t] = "phase4"
        /\ component_results[t].execution_stats.success_rate = 49
        /\ Has(t, "FALLBACK_MERGE") /\ ~Has(t, "PASSTHROUGH")
        /\ HasKey(final_results[t], "final_components")

(* C4: execute_synchronized_analysis always returns an envelope: no call   *)
(* ends with an exception reaching the caller.                             *)
NoExceptionEscapes ==
    \A t \in Threads : pc[t] # "raised"

(* C5: every returned envelope has the fields success, session_id,         *)
(* execution_time, service_status, report and sync_status, with            *)
(* sync_status PERFECT_SYNC or EMERGENCY_FALLBACK and the caller's id.     *)
EnvelopeHasAllFields ==
    \A t \in Threads :
        pc[t] = "returned" =>
            /\ {"success", "session_id", "execution_time", "service_status",
                "report", "sync_status"} \subseteq DOMAIN envelope[t]
            /\ envelope[t].sync_status \in {"PERFECT_SYNC", "EMERGENCY_FALLBACK"}
            /\ envelope[t].session_id = session_id[t]

(* C6: a run in which an unhandled exception was raised after the session  *)
(* record was created ends in EMERGENCY_FALLBACK: the error was passed to  *)
(* salvar_erro, the session was marked failed and the envelope has         *)
(* success = false and sync_status EMERGENCY_FALLBACK.                     *)
UnhandledEndsInEmergency ==
    \A t \in Threads :
        (Finished(t) /\ error[t] # "none") =>
            /\ LoggedCall(t, "super_orchestrator_critico", error[t])
            /\ Has(t, "EMERGENCY_FALLBACK")
            /\ HasKey(execution_state[session_id[t]], "error")
            /\ pc[t] = "returned"
            /\ envelope[t].success = FALSE
            /\ envelope[t].sync_status = "EMERGENCY_FALLBACK"

(* C7: the emergency report has a placeholder for exactly the component    *)
(* names _register_all_components registers.                               *)
EmergencyCoversRegistered ==
    \A t \in Threads :
        (pc[t] = "returned" /\ envelope[t].sync_status = "EMERGENCY_FALLBACK") =>
            DOMAIN envelope[t].fallback_report.components = RegisteredNames

EmergencyCoversRegisteredWitness ==
    \E t \in Threads :
        /\ pc[t] = "returned"
        /\ envelope[t].sync_status = "EMERGENCY_FALLBACK"
        /\ Has(t, "CONSOLIDATION")
        /\ "avatar_detalhado" \in DOMAIN envelope[t].fallback_report.components

(* C8: the status stored for a session id changes only from running to     *)
(* completed or from running to failed.                                    *)
StatusNeverRegresses ==
    [][\A s \in DOMAIN execution_state :
          execution_state'[s].status # execution_state[s].status =>
              /\ execution_state[s].status = "running"
              /\ execution_state'[s].status \in {"completed", "failed"}]_vars

(* C9: while a run is between the creation of its record and the end of    *)
(* persistence its session's status is running, and when it returns a      *)
(* PERFECT_SYNC envelope the record shows completed with the envelope's    *)
(* execution_time.                                                         *)
CompletedOnlyAtDone ==
    \A t \in Threads :
        /\ pc[t] \in {"save_start", "phase1", "phase2", "phase3", "phase4",
                      "phase5", "phase6", "lock_done"} =>
              execution_state[session_id[t]].status = "running"
        /\ pc[t] = "return_ok" =>
              /\ execution_state[session_id[t]].status = "completed"
              /\ execution_state[session_id[t]].execution_time = execution_time[t]

(* C10: when the enrichment call raises, the run does not enter the        *)
(* critical handler because of it, consolidation receives the merged       *)
(* results unchanged, and the run ends with success = true and             *)
(* PERFECT_SYNC.                                                           *)
EnrichmentFailureAbsorbed ==
    \A t \in Threads :
        EnrichmentRaised(t) =>
            /\ ~Has(t, "CONSOLIDATION") => pc[t] = "phase5"
            /\ Has(t, "CONSOLIDATION") /\ pc[t] = "phase6" =>
                  ~HasKey(consolidated_report[t].analysis_results, "enhanced_analysis")
            /\ Finished(t) =>
                  /\ pc[t] = "returned"
                  /\ envelope[t].success = TRUE
                  /\ envelope[t].sync_status = "PERFECT_SYNC"

(* C11: when the alternate pipeline raises on the fallback path the run    *)
(* recovers locally: it never enters the critical handler because of it    *)
(* and does not end in EMERGENCY_FALLBACK.                                 *)
AlternateFailureRecovered ==
    \A t \in Threads :
        error[t] = "master_orchestrator" =>
            /\ pc[t] \notin {"critical", "lock_fail", "write_fail_status",
                             "write_fail_error", "emergency", "raised"}
            /\ pc[t] = "returned" => envelope[t].sync_status = "PERFECT_SYNC"

(* C12: a run in which nothing but salvar_etapa raised (the save at the    *)
(* start included) ends as the run with a working persistence sink does:   *)
(* an envelope with success = true and sync_status PERFECT_SYNC.           *)
PersistenceFailureNotFatal ==
    \A t \in Threads :
        (Finished(t) /\ error[t] \in {"none", "salvar_etapa"}) =>
            /\ pc[t] = "returned"
            /\ envelope[t].success = TRUE
            /\ envelope[t].sync_status = "PERFECT_SYNC"

(* C13: success is true exactly when sync_status is PERFECT_SYNC and false *)
(* exactly when it is EMERGENCY_FALLBACK; a run in which no stage raised   *)
(* returns success = true whatever the success rate and however many       *)
(* components carry an error entry.                                        *)
NothingRaised(t) ==
    /\ error[t] = "none"
    /\ logged[t] = <<>>

SuccessIffPerfectSync ==
    \A t \in Threads :
        /\ pc[t] = "returned" =>
              /\ envelope[t].success = TRUE <=> envelope[t].sync_status = "PERFECT_SYNC"
              /\ envelope[t].success = FALSE <=> envelope[t].sync_status = "EMERGENCY_FALLBACK"
        /\ (Finished(t) /\ NothingRaised(t)) =>
              /\ pc[t] = "returned"
              /\ envelope[t].success = TRUE

\* a run below the threshold whose report holds a component with an error entry
SuccessIffPerfectSyncWitness ==
    \E t \in Threads :
        /\ pc[t] = "returned"
        /\ NothingRaised(t)
        /\ envelope[t].success = TRUE
        /\ envelope[t].component_success_rate < 50
        /\ envelope[t].report.metrics.successful_components
              < envelope[t].report.metrics.total_components

(* C14: a run that ends in PERFECT_SYNC has gone through INIT,             *)
(* SERVICE_CHECK, STRICT_EXECUTION, exactly one of FALLBACK_MERGE and      *)
(* PASSTHROUGH, ENRICHMENT, CONSOLIDATION, PERSISTENCE and DONE, once each *)
(* and in this order; at every moment of any run the stages entered so far *)
(* are a prefix of that order.                                             *)
StageOrder(path) ==
    <<"INIT", "SERVICE_CHECK", "STRICT_EXECUTION", path, "ENRICHMENT",
      "CONSOLIDATION", "PERSISTENCE", "DONE">>

IsPrefix(s, full) == Len(s) <= Len(full) /\ s = SubSeq(full, 1, Len(s))

WithoutEmergency(s) ==
    IF Len(s) > 0 /\ s[Len(s)] = "EMERGENCY_FALLBACK" THEN SubSeq(s, 1, Len(s) - 1) ELSE s

StagesInOrder ==
    \A t \in Threads :
        /\ \E path \in {"FALLBACK_MERGE", "PASSTHROUGH"} :
              IsPrefix(WithoutEmergency(stages[t]), StageOrder(path))
        /\ (pc[t] = "return_ok"
              \/ (pc[t] = "returned" /\ envelope[t].sync_status = "PERFECT_SYNC")) =>
              \E path \in {"FALLBACK_MERGE", "PASSTHROUGH"} : stages[t] = StageOrder(path)

StagesInOrderWitness ==
    \E t \in Threads :
        /\ pc[t] = "returned"
        /\ envelope[t].sync_status = "PERFECT_SYNC"
        /\ stages[t] = StageOrder("FALLBACK_MERGE")

(* C15: _consolidate_all_results never raises; for malformed inputs the    *)
(* missing pieces default to an empty components mapping, zero counts and  *)
(* health 'unknown'.                                                       *)
ConsolidateNeverRaises ==
    /\ d_pc # "raised"
    /\ \A i \in 1..Len(d_report) :
          /\ ~HasKey(d_service_status, "overall_health") =>
                d_report[i].metrics.service_health = "unknown"
          /\ (~HasKey(d_out, "components") /\ ~HasKey(d_out, "final_components")) =>
                /\ d_report[i].components = EmptyDict
                /\ d_report[i].metrics.total_components = 0
                /\ d_report[i].metrics.successful_components = 0

(* C16: in every consolidated report total_components is the number of     *)
(* entries of components and successful_components is the number of those  *)
(* entries whose result has no 'error' key, whatever the value of the key. *)
MetricsCountErrorKeys ==
    \A i \in 1..Len(d_report) :
        LET components == d_report[i].components
        IN  /\ d_report[i].metrics.total_components = Cardinality(DOMAIN components)
            /\ d_report[i].metrics.successful_components =
                  Cardinality({n \in DOMAIN components : components[n].error = "absent"})
            /\ d_report[i].metrics.successful_components
                  <= d_report[i].metrics.total_components

(* C17: _consolidate_all_results is a pure function of its arguments: a    *)
(* call leaves its arguments and the orchestrator's state as they were,    *)
(* the report holds the arguments as given, and two calls with equal       *)
(* arguments give reports equal in every field except timestamp.           *)
WithoutTimestamp(report) == [k \in DOMAIN report \ {"timestamp"} |-> report[k]]

RecordWritePcs ==
    {"write_begin", "write_done_status", "write_done_time",
     "write_fail_status", "write_fail_error"}

CollaboratorCallPcs ==
    {"save_start", "phase1", "phase2", "phase3", "phase4", "phase5", "phase6", "critical"}

LockOnlyForRecordWrites ==
    \A t \in Threads :
        /\ sync_lock = t => pc[t] \in RecordWritePcs
        /\ pc[t] \in CollaboratorCallPcs => sync_lock # t

\* one session is inside a collaborator call while another holds the lock
LockOnlyForRecordWritesWitness ==
    \E t, u \in Threads :
        /\ t # u
        /\ session_id[t] # session_id[u]
        /\ pc[t] \in CollaboratorCallPcs
        /\ sync_lock = u

(* C19: every write to execution_state is made by the thread that holds    *)
(* sync_lock, and when concurrent runs with pairwise distinct session ids  *)
(* have all returned, each session id has its own record, with status      *)
(* completed if that run's envelope has success = true and failed          *)
(* otherwise.                                                              *)
DistinctSessions == \A t, u \in Threads : t # u => session_id[t] # session_id[u]

RecordsMatchEnvelopes ==
    (DistinctSessions /\ \A t \in Threads : pc[t] = "returned") =>
        \A t \in Threads :
            /\ HasKey(execution_state, session_id[t])
            /\ execution_state[session_id[t]].status =
                  IF envelope[t].success THEN "completed" ELSE "failed"

WritesSerialized ==
    [][/\ execution_state' # execution_state =>
             \E t \in Threads : sync_lock = t /\ pc'[t] # pc[t]
       /\ RecordsMatchEnvelopes']_vars

\* two sessions ran concurrently, one succeeded and one failed
WritesSerializedWitness ==
    /\ DistinctSessions
    /\ \A t \in Threads : pc[t] = "returned"
    /\ \E t, u \in Threads :
          /\ envelope[t].success
          /\ ~envelope[u].success
          /\ execution_state[session_id[t]].status = "completed"
          /\ execution_state[session_id[u]].status = "failed"

(* C20: the progress callback is advisory: a run with a callback, whatever *)
(* the callback does, passes through the same stages and returns the same  *)
(* success and sync_status as the run without it; so a returned run in     *)
(* which nothing but the callback raised is a PERFECT_SYNC run that went   *)
(* through every stage.                                                    *)
OnlyCallbackRaised(t) ==
    /\ progress_callback[t]
    /\ error[t] \in {"none", "progress_callback"}
    /\ \A i \in 1..Len(logged[t]) : logged[t][i][2] = "progress_callback"

CallbackIsAdvisory ==
    \A t \in Threads :
        (pc[t] = "returned" /\ OnlyCallbackRaised(t)) =>
            /\ envelope[t].success = TRUE
            /\ envelope[t].sync_status = "PERFECT_SYNC"
            /\ \E path \in {"FALLBACK_MERGE", "PASSTHROUGH"} : stages[t] = StageOrder(path)

----------------------------------------------------------------------------
(* SpecExec: the component graph executor (component_orchestrator) fed by  *)
(* the register_component calls of _register_all_components.  A unit's     *)
(* operation is any callable: an invocation either gives a result that     *)
(* passes the unit's validation rules or fails (raises or fails them).     *)

\* register(...) fails with DuplicateNameError / UnknownDependencyError
DuplicateName(call) == call.name \in DOMAIN x_registered

UnknownDependency(call) == ~(call.dependencies \subseteq DOMAIN x_registered)

\* the units of reg that can be placed after the set placed
Placeable(reg, placed) == {n \in DOMAIN reg \ placed : reg[n] \subseteq placed}

RECURSIVE TopoClosure(_, _)
TopoClosure(reg, placed) ==
    IF Placeable(reg, placed) = {} THEN placed
    ELSE TopoClosure(reg, placed \cup Placeable(reg, placed))

\* a topological order over all registered units exists
HasTopologicalOrder(reg) == TopoClosure(reg, {}) = DOMAIN reg

\* success_rate = succeeded / attempted * 100, clamped to [0,100]; 0 when nothing
\* was attempted
SuccessRateOfNothingIsFull(succeeded, attempted) ==
    IF attempted = 0 THEN 100
    ELSE LET rate == (succeeded * 100) \div attempted
         IN  IF rate > 100 THEN 100 ELSE IF rate < 0 THEN 0 ELSE rate

SuccessRate(succeeded, attempted) ==
    IF attempted = 0 THEN 0
    ELSE LET rate == (succeeded * 100) \div attempted
         IN  IF rate > 100 THEN 100 ELSE IF rate < 0 THEN 0 ELSE rate

ExecutionStats(status) ==
    LET attempted == Cardinality(DOMAIN status)
        succeeded == Cardinality({n \in DOMAIN status : status[n] = "successful"})
    IN  [attempted |-> attempted,
         succeeded |-> succeeded,
         failed |-> Cardinality({n \in DOMAIN status : status[n] \in {"failed", "skipped"}}),
         success_rate |-> SuccessRate(succeeded, attempted)]

ReadyIgnoresDependencies(n) == x_status[n] = "pending"

\* every dependency of n is accounted for
Ready(n) ==
    /\ x_status[n] = "pending"
    /\ \A d \in x_registered[n] : x_status[d] # "pending"

BlockedNever(n) == FALSE

\* a dependency of n failed or was skipped
Blocked(n) == \E d \in x_registered[n] : x_status[d] \in {"failed", "skipped"}

InitExec ==
    /\ InitRunIdle
    /\ InitHelpersIdle
    /\ d_pc = "input"
    /\ d_component = EmptyDict
    /\ d_master = EmptyDict
    /\ d_out = EmptyDict
    /\ d_service_status = EmptyDict
    /\ d_report = <<>>
    /\ x_pc = "registering"
    /\ x_calls = 0
    /\ x_registered = EmptyDict
    /\ x_status = EmptyDict
    /\ x_invoked = EmptyDict
    /\ x_stats = EmptyDict
    /\ o_pc = "off"
    /\ o_name = ""
    /\ o_outcome = ""
    /\ o_posts = EmptyDict
    /\ o_result = EmptyDict

\* the next register_component call of _register_all_components
Register ==
    /\ x_pc = "registering"
    /\ x_calls < Len(RegistrationCalls)
    /\ LET call == RegistrationCalls[x_calls + 1]
       IN  /\ x_pc' = IF DuplicateName(call) THEN "duplicate_name"
                      ELSE IF UnknownDependency(call) THEN "unknown_dependency"
                      ELSE "registering"
           /\ x_registered' = IF DuplicateName(call) \/ UnknownDependency(call)
                              THEN x_registered
                              ELSE SetKey(x_registered, call.name, call.dependencies)
    /\ x_calls' = x_calls + 1
    /\ UNCHANGED <<x_status, x_invoked, x_stats, opVars, helperVars, runVars, dataVars>>

\* execute(input_data, progress_callback) on the units registered so far
BeginExecute ==
    /\ x_pc = "registering"
    /\ x_pc' = IF HasTopologicalOrder(x_registered) THEN "running" ELSE "cyclic_dependency"
    /\ x_status' = [n \in DOMAIN x_registered |-> "pending"]
    /\ x_invoked' = [n \in DOMAIN x_registered |-> 0]
    /\ UNCHANGED <<x_calls, x_registered, x_stats, opVars, helperVars, runVars, dataVars>>

\* the next unit in topological order is invoked and its result validated
InvokeUnit ==
    /\ x_pc = "running"
    /\ \E n \in DOMAIN x_registered :
          /\ Ready(n)
          /\ ~Blocked(n)
          /\ x_invoked' = [x_invoked EXCEPT ![n] = @ + 1]
          /\ \E outcome \in {"successful", "failed"} :
                x_status' = [x_status EXCEPT ![n] = outcome]
    /\ UNCHANGED <<x_pc, x_calls, x_registered, x_stats, opVars, helperVars, runVars, dataVars>>

\* the next unit in topological order depends on a failed unit: not invoked
SkipUnit ==
    /\ x_pc = "running"
    /\ \E n \in DOMAIN x_registered :
          /\ Ready(n)
          /\ Blocked(n)
          /\ x_status' = [x_status EXCEPT ![n] = "skipped"]
    /\ UNCHANGED <<x_pc, x_calls, x_registered, x_invoked, x_stats, opVars, helperVars,
                   runVars, dataVars>>

\* every unit is accounted for: the aggregated result is returned
FinishExecute ==
    /\ x_pc = "running"
    /\ \A n \in DOMAIN x_registered : x_status[n] # "pending"
    /\ x_stats' = ExecutionStats(x_status)
    /\ x_pc' = "done"
    /\ UNCHANGED <<x_calls, x_registered, x_status, x_invoked, opVars, helperVars, runVars, dataVars>>

NextExec == Register \/ BeginExecute \/ InvokeUnit \/ SkipUnit \/ FinishExecute

SpecExec == InitExec /\ [][NextExec]_vars

\* execute runs on the calling thread until it returns
SpecExecFair == SpecExec /\ WF_vars(NextExec)

(* C21: for the units registered (any prefix of the eight registrations,   *)
(* all of them DAGs) execute terminates, invokes each unit at most once,   *)
(* accounts for each unit exactly once as successful or failed/skipped,    *)
(* and never starts a unit before all its dependencies are accounted for.  *)
EachUnitAccountedOnce ==
    /\ \A n \in DOMAIN x_invoked : x_invoked[n] <= 1
    /\ x_pc = "done" =>
          /\ DOMAIN x_status = DOMAIN x_registered
          /\ \A n \in DOMAIN x_status : x_status[n] \in {"successful", "failed", "skipped"}
          /\ x_stats.attempted = Cardinality(DOMAIN x_registered)
          /\ x_stats.succeeded + x_stats.failed = x_stats.attempted

DependenciesFirst ==
    x_pc = "running" =>
        \A n \in DOMAIN x_status :
            /\ x_status'[n] # x_status[n] =>
                  /\ x_status[n] = "pending"
                  /\ \A d \in x_registered[n] : x_status[d] # "pending"
            /\ x_invoked'[n] # x_invoked[n] =>
                  \A d \in x_registered[n] : x_status[d] # "pending"

ExecuteVisitsEachUnitOnce ==
    /\ []EachUnitAccountedOnce
    /\ [][DependenciesFirst]_vars
    /\ <>(x_pc = "done")

\* the eight registered units have all been invoked once, after their dependencies
ExecuteVisitsEachUnitOnceWitness ==
    /\ x_pc = "done"
    /\ DOMAIN x_registered = RegisteredNames
    /\ \A n \in RegisteredNames : x_invoked[n] = 1 /\ x_status[n] = "successful"

(* C22: when a unit fails, every unit that depends on it directly or       *)
(* transitively is not invoked and is recorded as failed/skipped, never as *)
(* successful; with the eight registered units, a failure of web_search    *)
(* puts social_analysis in the failed set, attempted is 8 and succeeded is *)
(* at most 6.                                                              *)
RECURSIVE DependenciesClosure(_, _)
DependenciesClosure(reg, names) ==
    LET more == names \cup UNION {reg[n] : n \in names}
    IN  IF more = names THEN names ELSE DependenciesClosure(reg, more)

TransitiveDependencies(reg, n) == DependenciesClosure(reg, reg[n])

FailedSet == {n \in DOMAIN x_status : x_status[n] \in {"failed", "skipped"}}

DependentsOfFailureSkipped ==
    /\ \A n \in DOMAIN x_status :
          (\E d \in TransitiveDependencies(x_registered, n) : x_status[d] = "failed") =>
              /\ x_invoked[n] = 0
              /\ x_status[n] # "successful"
              /\ x_pc = "done" => n \in FailedSet
    /\ (x_pc = "done" /\ DOMAIN x_registered = RegisteredNames
            /\ x_status["web_search"] = "failed") =>
          /\ "social_analysis" \in FailedSet
          /\ x_stats.attempted = 8
          /\ x_stats.succeeded <= 6

\* web_search was invoked and failed: no other unit was invoked
DependentsOfFailureSkippedWitness ==
    /\ x_pc = "done"
    /\ DOMAIN x_registered = RegisteredNames
    /\ x_status["web_search"] = "failed"
    /\ x_invoked["web_search"] = 1
    /\ x_status["social_analysis"] = "skipped"
    /\ x_invoked["social_analysis"] = 0
    /\ x_stats.attempted = 8
    /\ x_stats.succeeded = 0

(* C23: after every execute, success_rate is in [0,100] and equals 0       *)
(* exactly when attempted = 0.                                             *)
SuccessRateZeroIffNothingAttempted ==
    x_pc = "done" =>
        /\ x_stats.success_rate \in 0..100
        /\ x_stats.success_rate = 0 <=> x_stats.attempted = 0

(* C23, amended: after every execute, success_rate is in [0,100], is       *)
(* succeeded * 100 / attempted when attempted > 0, and equals 0 exactly    *)
(* when succeeded = 0; with attempted = 0 it is 0, which sends the driver  *)
(* to the alternate path.                                                  *)
SuccessRateZeroIffNoneSucceeded ==
    x_pc = "done" =>
        /\ x_stats.success_rate \in 0..100
        /\ x_stats.success_rate = 0 <=> x_stats.succeeded = 0
        /\ x_stats.attempted > 0 =>
              x_stats.success_rate = (x_stats.succeeded * 100) \div x_stats.attempted
        /\ x_stats.attempted = 0 =>
              /\ x_stats.success_rate = 0
              /\ NeedsFallback([execution_stats |-> x_stats])

\* execute with nothing registered
SuccessRateZeroIffNoneSucceededWitness ==
    /\ x_pc = "done"
    /\ x_stats.attempted = 0
    /\ x_stats.success_rate = 0

(* C24: the register_component calls of _register_all_components satisfy   *)
(* the registration contract at every step: the names are pairwise         *)
(* distinct, every dependency was registered by an earlier call, no call   *)
(* is rejected and the registered graph is acyclic.                        *)
RegistrationIsValid ==
    /\ x_pc \notin {"duplicate_name", "unknown_dependency", "cyclic_dependency"}
    /\ \A i \in 1..x_calls :
          /\ \A j \in 1..x_calls : i # j => RegistrationCalls[i].name # RegistrationCalls[j].name
          /\ RegistrationCalls[i].dependencies
                \subseteq {RegistrationCalls[j].name : j \in 1..(i - 1)}
          /\ x_registered[RegistrationCalls[i].name] = RegistrationCalls[i].dependencies
    /\ Cardinality(DOMAIN x_registered) = x_calls
    /\ HasTopologicalOrder(x_registered)
    /\ \A n \in DOMAIN x_registered : n \notin TransitiveDependencies(x_registered, n)

\* all eight calls were accepted
RegistrationIsValidWitness ==
    /\ x_pc = "registering"
    /\ x_calls = 8
    /\ DOMAIN x_registered = RegisteredNames

(* C25: no observer that takes sync_lock sees a torn session record: while *)
(* the lock is free, a record with status completed has execution_time, a  *)
(* record with status failed has the error text, and a record with status  *)
(* running has start_time and empty components_completed and errors.       *)
RecordIsWhole(record) ==
    /\ record.status = "completed" => HasKey(record, "execution_time")
    /\ record.status = "failed" => HasKey(record, "error")
    /\ record.status = "running" =>
          /\ HasKey(record, "start_time")
          /\ record.components_completed = <<>>
          /\ record.errors = <<>>

NoTornRecord ==
    sync_lock = NoThread =>
        \A s \in DOMAIN execution_state : RecordIsWhole(execution_state[s])

\* the lock is free while one record is completed, another failed
NoTornRecordWitness ==
    /\ sync_lock = NoThread
    /\ \E s, u \in DOMAIN execution_state :
          /\ execution_state[s].status = "completed"
          /\ execution_state[u].status = "failed"
    /\ \E t \in Threads : pc[t] \notin {"idle", "returned", "raised"}

(* C26: a step of the run for session id s changes only the record of s:   *)
(* the records of all other session ids are left as they were, and no step *)
(* removes a session id from execution_state.                              *)
OnlyOwnRecordChanges ==
    [][\A s \in DOMAIN execution_state :
          /\ s \in DOMAIN execution_state'
          /\ execution_state'[s] # execution_state[s] =>
                \E t \in Threads : pc'[t] # pc[t] /\ session_id[t] = s]_vars

\* a run has written its record next to the finished record of another session
OnlyOwnRecordChangesWitness ==
    \E t, u \in Threads :
        /\ session_id[t] # session_id[u]
        /\ pc[t] = "returned"
        /\ pc[u] = "emergency"
        /\ HasKey(execution_state, session_id[t])
        /\ execution_state[session_id[t]].status = "completed"
        /\ execution_state[session_id[u]].status = "failed"

(* C27: if salvar_etapa raises during PERSISTENCE and salvar_erro does not *)
(* raise, the exception is absorbed: the run goes on to mark the session   *)
(* completed and returns success = true with sync_status PERFECT_SYNC and  *)
(* the consolidated report as it was.                                      *)
PersistenceRaised(t) == LoggedCall(t, "erro_salvamento_relatorio", "salvar_etapa")

PersistenceErrorAbsorbed ==
    \A t \in Threads :
        (PersistenceRaised(t) /\ error[t] # "salvar_erro") =>
            /\ error[t] = "none"
            /\ pc[t] \in {"lock_done", "write_done_status", "write_done_time",
                          "return_ok", "returned"}
            /\ pc[t] = "returned" =>
                  /\ envelope[t].success = TRUE
                  /\ envelope[t].sync_status = "PERFECT_SYNC"
                  /\ envelope[t].report = consolidated_report[t]
                  /\ envelope[t].report =
                        ConsolidateAllResults(final_results[t], ServiceStatusOfRun,
                                              session_id[t], "now")
                  /\ Has(t, "DONE")
                  /\ (\A u \in Threads \ {t} : session_id[u] # session_id[t]) =>
                        execution_state[session_id[t]].status = "completed"

PersistenceErrorAbsorbedWitness ==
    \E t \in Threads :
        /\ PersistenceRaised(t)
        /\ pc[t] = "returned"
        /\ envelope[t].success = TRUE
        /\ execution_state[session_id[t]].status = "completed"

(* C28: report.components is results['components'] when that is non-empty, *)
(* otherwise results['final_components'] when that is non-empty, otherwise *)
(* empty; so on the pass-through path the report holds exactly the strict  *)
(* executor's successful_components, on the fallback path exactly the      *)
(* merged components (strict first, the rest from the alternate pipeline), *)
(* with or without enrichment.                                             *)
ReportComponentsByPath ==
    \A i \in 1..Len(d_report) :
        LET comps == d_report[i].components
            sc == d_component.successful_components
            mc == IF HasKey(d_master, "components") THEN d_master.components ELSE EmptyDict
        IN  /\ comps = IF HasKey(d_out, "components") /\ DOMAIN d_out.components # {}
                         THEN d_out.components
                       ELSE IF HasKey(d_out, "final_components")
                                 /\ DOMAIN d_out.final_components # {}
                         THEN d_out.final_components
                       ELSE EmptyDict
            /\ d_pc = "enhanced" => comps = sc
            /\ d_pc = "combined" =>
                  /\ DOMAIN comps = DOMAIN sc \cup DOMAIN mc
                  /\ \A n \in DOMAIN comps : comps[n] = IF n \in DOMAIN sc THEN sc[n] ELSE mc[n]

\* a report built after enrichment on the fallback path, with components of both pipelines
ReportComponentsByPathWitness ==
    /\ d_pc = "combined"
    /\ Len(d_report) > 0
    /\ HasKey(d_out, "enhanced_analysis")
    /\ \E n, m \in DOMAIN d_report[1].components :
          /\ d_report[1].components[n].origin = "component"
          /\ d_report[1].components[m].origin = "master"

----------------------------------------------------------------------------
(* SpecOps: the registered operations (_execute_web_search ...             *)
(* _execute_avatar_detalhado) applied to what their collaborators do.  A   *)
(* result is described by its type and its keys; a list by its length.     *)

OpResult(type, keys) == [type |-> type, keys |-> keys]

\* what the collaborator of an operation does: raise, or return a value
CollaboratorOutcomes == {"raises", "dict", "dict_with_drivers", "empty_dict", "none"}

CollaboratorValue(outcome) ==
    IF outcome = "dict" THEN OpResult("dict", {"data"})
    ELSE IF outcome = "dict_with_drivers" THEN OpResult("dict", {"drivers", "data"})
    ELSE IF outcome = "empty_dict" THEN OpResult("dict", {})
    ELSE OpResult("none", {})

\* the platforms whose search can return posts; search_instagram returns none
PostingPlatforms == {"youtube", "twitter", "linkedin"}

PlatformOutcomes ==
    {[raises |-> TRUE, results |-> 0]}
        \cup {[raises |-> FALSE, results |-> n] : n \in 0..MaxPosts}

RECURSIVE SumOver(_, _)
SumOver(f, keys) ==
    IF keys = {} THEN 0
    ELSE LET k == CHOOSE x \in keys : TRUE
         IN  f[k] + SumOver(f, keys \ {k})

\* the order in which search_all_platforms calls the searches (lines 406-452)
PlatformOrder == <<"youtube", "twitter", "linkedin", "instagram">>

PlatformSucceedsAlways(p) == TRUE

\* 'success' of a search's result: search_instagram returns success False,
\* the other three return success True on every path
PlatformSucceeds(p) == p # "instagram"

\* MCPSupadataManager.search_all_platforms: posts gives what each search_* does;
\* a search that raises leaves no trace in the result
SearchAllPlatforms(posts) ==
    LET Ran(p) == p = "instagram" \/ ~posts[p].raises
        searched == SelectSeq(PlatformOrder, Ran)
        platforms == [p \in {searched[i] : i \in 1..Len(searched)} |->
                        [success |-> PlatformSucceeds(p),
                         results |-> IF p = "instagram" THEN 0 ELSE posts[p].results]]
        Succeeded(p) == platforms[p].success
        successful == SelectSeq(searched, Succeeded)
        names == {successful[i] : i \in 1..Len(successful)}
        counts == [p \in names |-> platforms[p].results]
    IN  [query |-> [type |-> "str"],
         timestamp |-> [type |-> "str"],
         platforms_searched |-> [type |-> "list", value |-> searched],
         platforms_successful |-> [type |-> "list", value |-> successful],
         total_results |-> [type |-> "int", value |-> SumOver(counts, names)],
         search_quality |-> [type |-> "str"],
         platforms |-> [type |-> "dict", value |-> platforms],
         success |-> [type |-> "bool", value |-> Len(successful) > 0]]

\* isinstance(platform_data, dict) and platform_data.get('results') (line 378)
HasPosts(platform_data) ==
    /\ platform_data.type = "dict"
    /\ HasKey(platform_data.value, "results")
    /\ platform_data.value.results > 0

\* lines 376-390: the loop runs over the items of social_results
ExecuteSocialAnalysis(social_results) ==
    LET posts == [k \in DOMAIN social_results |->
                    IF HasPosts(social_results[k]) THEN social_results[k].value.results
                    ELSE 0]
        total == SumOver(posts, DOMAIN social_results)
    IN  [type |-> "dict",
         keys |-> {"social_results", "sentiment_analysis", "total_posts",
                   "platforms_analyzed"},
         social_results |-> social_results,
         sentiment_analysis |-> total > 0,
         total_posts |-> total,
         platforms_analyzed |-> DOMAIN social_results]

\* the except branch of mental_drivers returns the same dict as the others
OperationPlainFallback(name, outcome, posts) ==
    IF outcome = "raises" THEN OpResult("dict", {"error", "fallback_used"})
    ELSE IF name = "web_search"
    THEN OpResult("dict", {"search_results", "query_used", "total_results"})
    ELSE IF name = "social_analysis"
    THEN ExecuteSocialAnalysis(SearchAllPlatforms(posts))
    ELSE CollaboratorValue(outcome)

\* _execute_<name>(data) when its collaborator gives outcome (lines 330-521)
Operation(name, outcome, posts) ==
    IF outcome = "raises"
    THEN IF name = "mental_drivers"
         THEN OpResult("dict", {"drivers", "error"})
         ELSE OpResult("dict", {"error", "fallback_used"})
    ELSE IF name = "web_search"
    THEN OpResult("dict", {"search_results", "query_used", "total_results"})
    ELSE IF name = "social_analysis"
    THEN ExecuteSocialAnalysis(SearchAllPlatforms(posts))
    ELSE CollaboratorValue(outcome)

\* validation_rules of the register_component calls (lines 78-134)
MinSize == 1

RequiredFields(name) == IF name = "mental_drivers" THEN {"drivers"} ELSE {}

\* the executor's validation of a result against the unit's rules
Validates(name, result) ==
    /\ result.type = "dict"
    /\ Cardinality(result.keys) >= MinSize
    /\ RequiredFields(name) \subseteq result.keys

InitOps ==
    /\ InitRunIdle
    /\ InitHelpersIdle
    /\ d_pc = "input"
    /\ d_component = EmptyDict
    /\ d_master = EmptyDict
    /\ d_out = EmptyDict
    /\ d_service_status = EmptyDict
    /\ d_report = <<>>
    /\ x_pc = "off"
    /\ x_calls = 0
    /\ x_registered = EmptyDict
    /\ x_status = EmptyDict
    /\ x_invoked = EmptyDict
    /\ x_stats = EmptyDict
    /\ o_pc = "input"
    /\ o_name \in RegisteredNames
    /\ o_outcome \in CollaboratorOutcomes
    /\ o_posts \in IF o_name = "social_analysis"
                   THEN [PostingPlatforms -> PlatformOutcomes]
                   ELSE {EmptyDict}
    /\ o_result = EmptyDict

\* the executor invokes a unit's operation
ApplyOperation ==
    /\ o_pc = "input"
    /\ o_name # "social_analysis"
    /\ o_result' = Operation(o_name, o_outcome, o_posts)
    /\ o_pc' = "returned"
    /\ UNCHANGED <<o_name, o_outcome, o_posts, execVars, helperVars, runVars, dataVars>>

\* the executor invokes _execute_social_analysis
ApplySocialAnalysis ==
    /\ o_pc = "input"
    /\ o_name = "social_analysis"
    /\ o_result' = Operation(o_name, o_outcome, o_posts)
    /\ o_pc' = "returned"
    /\ UNCHANGED <<o_name, o_outcome, o_posts, execVars, helperVars, runVars, dataVars>>

NextOps == ApplyOperation \/ ApplySocialAnalysis

SpecOps == InitOps /\ [][NextOps]_vars

(* C29: none of the eight registered operations raises to the executor:    *)
(* when its collaborator raises, the operation returns a mapping with an   *)
(* 'error' key that still satisfies the unit's validation rules (a mapping *)
(* of size >= 1, with 'drivers' for mental_drivers).                       *)
OperationsAbsorbExceptions ==
    /\ o_pc \in {"input", "returned"}
    /\ (o_pc = "returned" /\ o_outcome = "raises") =>
          /\ o_result.type = "dict"
          /\ "error" \in o_result.keys
          /\ Validates(o_name, o_result)

\* the collaborator of mental_drivers raised
OperationsAbsorbExceptionsWitness ==
    /\ o_pc = "returned"
    /\ o_outcome = "raises"
    /\ o_name = "mental_drivers"
    /\ {"drivers", "error"} \subseteq o_result.keys

(* C30: _execute_social_analysis gathers the posts of every platform that  *)
(* search_all_platforms searched: total_posts is the sum of the lengths of *)
(* the per-platform results lists, sentiment analysis is run whenever a    *)
(* platform returned a post, and platforms_analyzed lists the platforms    *)
(* searched.                                                               *)
SocialAnalysisGathersPosts ==
    (o_pc = "returned" /\ o_name = "social_analysis" /\ o_outcome # "raises") =>
        LET platforms == o_result.social_results.platforms.value
            lengths == [p \in DOMAIN platforms |-> platforms[p].results]
        IN  /\ o_result.total_posts = SumOver(lengths, DOMAIN platforms)
            /\ o_result.sentiment_analysis <=> \E p \in DOMAIN platforms : lengths[p] > 0
            /\ o_result.platforms_analyzed = DOMAIN platforms

----------------------------------------------------------------------------
(* SpecDrivers: _execute_mental_drivers (lines 396-431).  A driver entry   *)
(* is its 'numero' and where it came from; the generator's own entries     *)
(* carry numero 0, the model does not look at what the generator wrote.    *)

\* the length the loop pads to, and the size of the except branch's list
RequiredDrivers == 19

\* what mental_drivers_architect.generate_custom_drivers does: raise, return a
\* value that is no dict, a dict without 'drivers', a dict whose 'drivers' has
\* no len() (None, a number), or a dict whose 'drivers' is a list of len entries
GeneratorOutcomes ==
    {[kind |-> k, len |-> 0] :
        k \in {"raises", "not_a_dict", "dict_without_drivers", "drivers_unsized"}}
      \cup {[kind |-> "drivers_list", len |-> n] : n \in 0..MaxGenerated}

GeneratedList(n) == [i \in 1..n |-> [numero |-> 0, origin |-> "generator"]]

\* the list of the except branch (line 429)
PlaceholderDrivers ==
    [i \in 1..RequiredDrivers |-> [numero |-> i, origin |-> "placeholder"]]

\* the run, SpecData, the executor and SpecOps at rest
InitCoreIdle ==
    /\ InitRunIdle
    /\ d_pc = "input"
    /\ d_component = EmptyDict
    /\ d_master = EmptyDict
    /\ d_out = EmptyDict
    /\ d_service_status = EmptyDict
    /\ d_report = <<>>
    /\ x_pc = "off"
    /\ x_calls = 0
    /\ x_registered = EmptyDict
    /\ x_status = EmptyDict
    /\ x_invoked = EmptyDict
    /\ x_stats = EmptyDict
    /\ o_pc = "off"
    /\ o_name = ""
    /\ o_outcome = ""
    /\ o_posts = EmptyDict
    /\ o_result = EmptyDict

InitDrivers ==
    /\ InitCoreIdle
    /\ InitWebIdle
    /\ InitStatusIdle
    /\ InitSupadataIdle
    /\ m_pc = "input"
    /\ m_generator \in GeneratorOutcomes
    /\ m_drivers = <<>>
    /\ m_result = EmptyDict

\* lines 399-411: the generator is called; len() of an unsized 'drivers'
\* raises inside the try, as the generator itself may
CallGenerator ==
    /\ m_pc = "input"
    /\ IF m_generator.kind \in {"raises", "drivers_unsized"}
       THEN /\ m_result' = [type |-> "dict", keys |-> {"drivers", "error"},
                            drivers |-> PlaceholderDrivers]
            /\ m_pc' = "returned"
            /\ UNCHANGED m_drivers
       ELSE IF m_generator.kind = "drivers_list"
       THEN /\ m_drivers' = GeneratedList(m_generator.len)
            /\ m_pc' = "padding"
            /\ UNCHANGED m_result
       ELSE /\ m_result' = [type |-> IF m_generator.kind = "not_a_dict"
                                     THEN "none" ELSE "dict",
                            keys |-> IF m_generator.kind = "not_a_dict"
                                     THEN {} ELSE {"data"},
                            drivers |-> <<>>]
            /\ m_pc' = "returned"
            /\ UNCHANGED m_drivers
    /\ UNCHANGED <<m_generator, coreVars, webVars, statusVars, requestVars>>

PadDriverWhileAtMostRequired ==
    /\ m_pc = "padding"
    /\ Len(m_drivers) <= RequiredDrivers
    /\ m_drivers' = Append(m_drivers, [numero |-> Len(m_drivers) + 1,
                                       origin |-> "padding"])
    /\ UNCHANGED <<m_pc, m_generator, m_result, coreVars, webVars, statusVars, requestVars>>

\* lines 414-424: one iteration of the while loop
PadDriver ==
    /\ m_pc = "padding"
    /\ Len(m_drivers) < RequiredDrivers
    /\ m_drivers' = Append(m_drivers, [numero |-> Len(m_drivers) + 1,
                                       origin |-> "padding"])
    /\ UNCHANGED <<m_pc, m_generator, m_result, coreVars, webVars, statusVars, requestVars>>

\* line 426: the loop condition is false, drivers is returned
ReturnDrivers ==
    /\ m_pc = "padding"
    /\ Len(m_drivers) >= RequiredDrivers
    /\ m_result' = [type |-> "dict", keys |-> {"drivers", "data"},
                    drivers |-> m_drivers]
    /\ m_pc' = "returned"
    /\ UNCHANGED <<m_generator, m_drivers, coreVars, webVars, statusVars, requestVars>>

NextDrivers == CallGenerator \/ PadDriver \/ ReturnDrivers

SpecDrivers == InitDrivers /\ [][NextDrivers]_vars

\* a call of the operation keeps running until it returns
SpecDriversFair == SpecDrivers /\ WF_vars(NextDrivers)

\* what the claim says about a returned result
ReturnedDriversAreComplete ==
    (m_pc = "returned" /\ "drivers" \in m_result.keys) =>
        /\ Len(m_result.drivers) >= RequiredDrivers
        /\ m_generator.kind = "drivers_list" =>
              /\ Len(m_result.drivers) = IF m_generator.len < RequiredDrivers
                                         THEN RequiredDrivers ELSE m_generator.len
              /\ SubSeq(m_result.drivers, 1, m_generator.len)
                    = GeneratedList(m_generator.len)
              /\ \A i \in (m_generator.len + 1)..Len(m_result.drivers) :
                    m_result.drivers[i] = [numero |-> i, origin |-> "padding"]
        /\ m_generator.kind = "raises" =>
              /\ m_result.drivers = PlaceholderDrivers
              /\ Len(m_result.drivers) = RequiredDrivers
              /\ "error" \in m_result.keys

(* C31: a result of _execute_mental_drivers with a 'drivers' list has at   *)
(* least 19 entries: a generator list shorter than 19 is padded to exactly *)
(* 19 with entries numbered consecutively after the existing ones, a list  *)
(* of 19 or more is returned unchanged, the padding loop ends, and when    *)
(* the generator raises the result has exactly 19 placeholders and an      *)
(* 'error' key.                                                            *)
DriversPaddedToNineteen ==
    /\ [](m_pc \in {"input", "padding", "returned"})
    /\ []ReturnedDriversAreComplete
    /\ <>(m_pc = "returned")

\* a generator list of 17 entries came back with entries 18 and 19 appended
DriversPaddedToNineteenWitness ==
    /\ m_pc = "returned"
    /\ m_generator = [kind |-> "drivers_list", len |-> 17]
    /\ Len(m_result.drivers) = 19
    /\ m_result.drivers[18].numero = 18
    /\ m_result.drivers[19].numero = 19

----------------------------------------------------------------------------
(* SpecWebSearch: _execute_web_search (lines 330-364).  A search result is *)
(* its Python kind and, for a list or the 'results' list of a dict, its    *)
(* number of items.                                                        *)

\* the threshold of line 340
EnoughResults == 5

SearchKinds ==
    {"none", "empty_dict", "dict_without_results", "dict_results_unsized", "str"}

\* None, {}, a dict without 'results', a dict whose 'results' has no len(),
\* a non-empty string, a dict with 'results' of n items, a list of n items
SearchValues ==
    {[kind |-> k, items |-> 0] : k \in SearchKinds}
      \cup {[kind |-> k, items |-> n] : k \in {"dict_results", "list"}, n \in 0..MaxResults}

NoValue == [kind |-> "none", items |-> 0]

\* what search_with_fallback / execute_simultaneous_distinct_search does
SearchOutcomes ==
    {[raises |-> TRUE, value |-> NoValue]}
      \cup {[raises |-> FALSE, value |-> v] : v \in SearchValues}

\* bool(value)
IsTruthy(v) ==
    /\ v.kind \notin {"none", "empty_dict"}
    /\ v.kind = "list" => v.items > 0

IsDict(v) ==
    v.kind \in {"empty_dict", "dict_without_results", "dict_results_unsized", "dict_results"}

\* len(value.get('results', [])) or len(value) raises TypeError
CountRaises(v) == v.kind = "dict_results_unsized"

\* lines 355-358: the count of a dict's 'results' or of a list, else 0
TotalResults(v) == IF v.kind \in {"dict_results", "list"} THEN v.items ELSE 0

NeedsSecondaryOnlyWhenEmpty(v) ==
    \/ ~IsTruthy(v)
    \/ IsDict(v) /\ TotalResults(v) < 1
    \/ v.kind = "list" /\ v.items < 1

\* the condition of line 340, for a value whose count does not raise
NeedsSecondary(v) ==
    \/ ~IsTruthy(v)
    \/ IsDict(v) /\ TotalResults(v) < EnoughResults
    \/ v.kind = "list" /\ v.items < EnoughResults

\* the dict of the except branch (lines 362-364)
WebSearchError ==
    [type |-> "dict", keys |-> {"error", "fallback_used"},
     search_results |-> NoValue, total_results |-> 0]

InitWebSearch ==
    /\ InitCoreIdle
    /\ InitDriversIdle
    /\ InitStatusIdle
    /\ InitSupadataIdle
    /\ w_pc = "input"
    /\ w_primary \in SearchOutcomes
    /\ w_secondary \in SearchOutcomes
    /\ w_current = NoValue
    /\ w_called = FALSE
    /\ w_result = EmptyDict

\* line 337: production_search_manager.search_with_fallback(query, 20)
PrimarySearch ==
    /\ w_pc = "input"
    /\ IF w_primary.raises
       THEN /\ w_result' = WebSearchError
            /\ w_pc' = "returned"
            /\ UNCHANGED w_current
       ELSE /\ w_current' = w_primary.value
            /\ w_pc' = "checked"
            /\ UNCHANGED w_result
    /\ UNCHANGED <<w_primary, w_secondary, w_called, coreVars, driverVars, statusVars, requestVars>>

\* line 340: the condition raises on a truthy dict whose 'results' has no len()
ConditionFails ==
    /\ w_pc = "checked"
    /\ CountRaises(w_current)
    /\ w_result' = WebSearchError
    /\ w_pc' = "returned"
    /\ UNCHANGED <<w_primary, w_secondary, w_current, w_called, coreVars, driverVars, statusVars, requestVars>>

\* lines 341-350: the coordinator is called; its result replaces the primary
\* one when it is truthy
SecondarySearch ==
    /\ w_pc = "checked"
    /\ ~CountRaises(w_current)
    /\ NeedsSecondary(w_current)
    /\ w_called' = TRUE
    /\ IF w_secondary.raises
       THEN /\ w_result' = WebSearchError
            /\ w_pc' = "returned"
            /\ UNCHANGED w_current
       ELSE /\ w_current' = IF IsTruthy(w_secondary.value)
                            THEN w_secondary.value ELSE w_current
            /\ w_pc' = "counting"
            /\ UNCHANGED w_result
    /\ UNCHANGED <<w_primary, w_secondary, coreVars, driverVars, statusVars, requestVars>>

\* line 340 is false: the primary result is kept
KeepPrimary ==
    /\ w_pc = "checked"
    /\ ~CountRaises(w_current)
    /\ ~NeedsSecondary(w_current)
    /\ w_pc' = "counting"
    /\ UNCHANGED <<w_primary, w_secondary, w_current, w_called, w_result,
                   coreVars, driverVars, statusVars, requestVars>>

\* lines 352-360: total_results is counted and the result returned
ReturnSearch ==
    /\ w_pc = "counting"
    /\ w_result' = IF CountRaises(w_current) THEN WebSearchError
                   ELSE [type |-> "dict",
                         keys |-> {"search_results", "query_used", "total_results"},
                         search_results |-> w_current,
                         total_results |-> TotalResults(w_current)]
    /\ w_pc' = "returned"
    /\ UNCHANGED <<w_primary, w_secondary, w_current, w_called, coreVars, driverVars, statusVars, requestVars>>

NextWebSearch ==
    PrimarySearch \/ ConditionFails \/ SecondarySearch \/ KeepPrimary \/ ReturnSearch

SpecWebSearch == InitWebSearch /\ [][NextWebSearch]_vars

\* the primary search returned nothing, or a mapping or list with fewer than 5 results
PrimaryFellShort ==
    /\ ~w_primary.raises
    /\ LET v == w_primary.value
       IN  \/ v.kind \in {"none", "empty_dict", "dict_without_results"}
           \/ v.kind \in {"dict_results", "list"} /\ v.items < 5

(* C32: _execute_web_search calls the secondary coordinator if and only if *)
(* the primary search returned nothing or fewer than 5 results; the        *)
(* returned search_results is the secondary result only when that result   *)
(* is non-empty, otherwise the primary one, and total_results is the item  *)
(* count of the search_results returned.                                   *)
SecondaryOnlyWhenPrimaryShort ==
    /\ (w_pc \in {"counting", "returned"}) => (w_called <=> PrimaryFellShort)
    /\ (w_pc = "returned" /\ "search_results" \in w_result.keys) =>
          /\ w_result.search_results =
                IF w_called /\ w_secondary.value \notin
                                  {NoValue, [kind |-> "empty_dict", items |-> 0],
                                   [kind |-> "list", items |-> 0]}
                THEN w_secondary.value
                ELSE w_primary.value
          /\ w_result.search_results.kind \in {"dict_results", "list"} =>
                w_result.total_results = w_result.search_results.items
          /\ w_result.search_results.kind \notin {"dict_results", "list"} =>
                w_result.total_results = 0

\* three primary results, six from the coordinator: the six are returned
SecondaryOnlyWhenPrimaryShortWitness ==
    /\ w_pc = "returned"
    /\ w_called
    /\ w_primary.value = [kind |-> "dict_results", items |-> 3]
    /\ w_secondary.value = [kind |-> "dict_results", items |-> 6]
    /\ w_result.total_results = 6

----------------------------------------------------------------------------
(* SpecStatus: _check_all_services_status (lines 262-327) on what          *)
(* ai_manager.get_provider_status() does.                                  *)

ProviderName(i) == "provider_" \o ToString(i)

\* a status mapping of n providers, the first k of them 'available' or 'ready'
ProviderStatus(n, k) ==
    [p \in {ProviderName(i) : i \in 1..n} |->
        LET i == CHOOSE j \in 1..n : ProviderName(j) = p
        IN  IF i > k THEN "unavailable"
            ELSE IF i % 2 = 1 THEN "available" ELSE "ready"]

\* get_provider_status raises, or returns a mapping of provider -> status
ProviderOutcomes ==
    {[raises |-> TRUE, value |-> EmptyDict]}
      \cup {[raises |-> FALSE, value |-> ProviderStatus(n, k)] :
               n \in 0..MaxProviders, k \in 0..MaxProviders}

InitStatus ==
    /\ InitCoreIdle
    /\ InitDriversIdle
    /\ InitWebIdle
    /\ InitSupadataIdle
    /\ s_pc = "input"
    /\ s_provider \in ProviderOutcomes
    /\ s_status = [ai_providers |-> EmptyDict, search_engines |-> EmptyDict,
                   content_extractors |-> EmptyDict, social_platforms |-> EmptyDict,
                   overall_health |-> "unknown"]

\* lines 274-279: the try around get_provider_status
QueryProviders ==
    /\ s_pc = "input"
    /\ s_status' = [s_status EXCEPT !.ai_providers =
                        IF s_provider.raises
                        THEN [k \in {"error"} |-> "provider status failed"]
                        ELSE s_provider.value]
    /\ s_pc' = "queried"
    /\ UNCHANGED <<s_provider, coreVars, driverVars, webVars, requestVars>>

\* lines 281-327: the fixed categories are filled in and the health computed
ComputeHealth ==
    /\ s_pc = "queried"
    /\ s_status' = CheckAllServicesStatus(s_status.ai_providers)
    /\ s_pc' = "returned"
    /\ UNCHANGED <<s_provider, coreVars, driverVars, webVars, requestVars>>

NextStatus == QueryProviders \/ ComputeHealth

SpecStatus == InitStatus /\ [][NextStatus]_vars

StatusCategories == {"ai_providers", "search_engines", "content_extractors",
                     "social_platforms"}

\* the entries of the snapshot's category mappings, and those available or ready
TotalServices == SumOver([c \in StatusCategories |-> Cardinality(DOMAIN s_status[c])],
                         StatusCategories)

AvailableServices ==
    SumOver([c \in StatusCategories |->
                Cardinality({k \in DOMAIN s_status[c] :
                                s_status[c][k] \in {"available", "ready"}})],
            StatusCategories)

(* C33: _check_all_services_status always returns; counting available and *)
(* total over all entries of the category mappings, overall_health is      *)
(* excellent iff available*100 >= 70*total, good iff in [50%,70%), fair    *)
(* iff in [30%,50%), poor iff below 30%, unknown iff total is 0; the fixed *)
(* categories contribute six entries, so the returned snapshot is never    *)
(* 'unknown', also when get_provider_status raises.                        *)
HealthMatchesAvailability ==
    /\ s_pc \in {"input", "queried", "returned"}
    /\ s_pc = "returned" =>
          LET a == AvailableServices * 100
              t == TotalServices
              h == s_status.overall_health
          IN  /\ h = "excellent" <=> a >= 70 * t
              /\ h = "good" <=> (a >= 50 * t /\ a < 70 * t)
              /\ h = "fair" <=> (a >= 30 * t /\ a < 50 * t)
              /\ h = "poor" <=> a < 30 * t
              /\ h = "unknown" <=> t = 0
              /\ t >= 6
              /\ h # "unknown"
              /\ Cardinality(DOMAIN s_status.search_engines)
                   + Cardinality(DOMAIN s_status.content_extractors) = 6

\* get_provider_status raised: seven entries, five available, 'excellent'
HealthMatchesAvailabilityWitness ==
    /\ s_pc = "returned"
    /\ s_provider.raises
    /\ TotalServices = 7
    /\ AvailableServices = 5
    /\ s_status.overall_health = "excellent"

----------------------------------------------------------------------------
(* SpecSupadata: MCPSupadataManager.search_youtube, search_twitter and     *)
(* search_linkedin (mcp_supadata_manager.py lines 110-157, 235-267,        *)
(* 304-336) with _make_request (lines 77-108).  A response is its status   *)
(* and the attempt that received it; a results list is its length.         *)

\* self.max_retries (line 46)
max_retries == 2

\* max_results of the search_* signatures, and the size of the local data
DefaultMaxResults == 10

LocalResults == 5

SearchPlatforms == {"youtube", "twitter", "linkedin"}

\* requests.request returns a response, raises a RequestException, or raises
\* another exception
AttemptOutcomes ==
    {[raises |-> r, status |-> 0] : r \in {"request", "other"}}
      \cup {[raises |-> "none", status |-> c] : c \in {200, 204, 401, 403, 429, 500}}

\* response.json(): raises JSONDecodeError, gives a value the processing
\* raises on, or gives a mapping of n items
ResponseBodies ==
    {[kind |-> k, items |-> 0] : k \in {"invalid_json", "malformed"}}
      \cup {[kind |-> "items", items |-> n] : n \in 0..MaxPosts}

NoResponse == [kind |-> "none", status |-> 0, attempt |-> 0]

RaisedInRequest == [kind |-> "raised", status |-> 0, attempt |-> 0]

RetriesEveryRateLimit(status, attempt) == status = 429

\* lines 94-99: a 429 is retried while attempts remain
RetriesRateLimit(status, attempt) == status = 429 /\ attempt < max_retries

GivesUpAtOnce(attempt) == TRUE

\* line 105: None is returned when the failed attempt was the last one
GivesUp(attempt) == attempt = max_retries

\* bool(response): requests.Response is falsy for a status of 400 or above
ResponseIsFalsy(r) == r.kind = "none" \/ r.status >= 400

ResponseUsableWhenPresent(platform, r) == r.kind = "response"

\* lines 130-142 (youtube), 252 (twitter), 321 (linkedin)
ResponseUsable(platform, r) ==
    /\ r.kind = "response"
    /\ ~ResponseIsFalsy(r)
    /\ platform = "youtube" => r.status \notin {401, 403}
    /\ r.status = 200

\* _process_<platform>_results
ApiData(n) ==
    [success |-> TRUE, results |-> n, data_quality |-> "api_data",
     data_type |-> "absent", fallback_used |-> FALSE]

\* _create_youtube_basic_analysis, _create_simulated_twitter_data,
\* _create_simulated_linkedin_data: min(max_results, 5) entries
LocalData(platform, max_results) ==
    [success |-> TRUE,
     results |-> IF max_results < LocalResults THEN max_results ELSE LocalResults,
     data_quality |-> IF platform = "youtube" THEN "market_analysis" ELSE "absent",
     data_type |-> IF platform = "youtube" THEN "absent" ELSE "simulated",
     fallback_used |-> platform = "youtube"]

\* what search_<platform> returns once _make_request is over
SearchResult(platform, r, body) ==
    IF ResponseUsable(platform, r) /\ body.kind = "items"
    THEN ApiData(body.items)
    ELSE LocalData(platform, DefaultMaxResults)

InitSupadata ==
    /\ InitCoreIdle
    /\ InitDriversIdle
    /\ InitWebIdle
    /\ InitStatusIdle
    /\ q_pc = "input"
    /\ q_platform \in SearchPlatforms
    /\ q_available \in BOOLEAN
    /\ q_attempts \in [1..(max_retries + 1) -> AttemptOutcomes]
    /\ q_body \in ResponseBodies
    /\ q_attempt = 0
    /\ q_log = <<>>
    /\ q_response = NoResponse
    /\ q_result = EmptyDict

\* lines 113-128: without an API key the local data is returned at once
StartSearch ==
    /\ q_pc = "input"
    /\ IF q_available
       THEN /\ q_pc' = "requesting"
            /\ UNCHANGED q_result
       ELSE /\ q_pc' = "returned"
            /\ q_result' = LocalData(q_platform, DefaultMaxResults)
    /\ UNCHANGED <<q_platform, q_available, q_attempts, q_body, q_attempt, q_log,
                   q_response, coreVars, driverVars, webVars, statusVars>>

\* lines 83-101: the attempt gets a response
AttemptAnswered ==
    /\ q_pc = "requesting"
    /\ q_attempt < max_retries + 1
    /\ LET o == q_attempts[q_attempt + 1]
           again == RetriesRateLimit(o.status, q_attempt)
       IN  /\ o.raises = "none"
           /\ q_log' = Append(q_log, [outcome |-> o, slept |-> again])
           /\ IF again
              THEN /\ q_attempt' = q_attempt + 1
                   /\ UNCHANGED <<q_pc, q_response>>
              ELSE /\ q_response' = [kind |-> "response", status |-> o.status,
                                     attempt |-> q_attempt + 1]
                   /\ q_pc' = "responded"
                   /\ UNCHANGED q_attempt
    /\ UNCHANGED <<q_platform, q_available, q_attempts, q_body, q_result,
                   coreVars, driverVars, webVars, statusVars>>

\* lines 103-106: the attempt raises a RequestException
AttemptFailed ==
    /\ q_pc = "requesting"
    /\ q_attempt < max_retries + 1
    /\ LET o == q_attempts[q_attempt + 1]
       IN  /\ o.raises = "request"
           /\ q_log' = Append(q_log, [outcome |-> o, slept |-> FALSE])
           /\ IF GivesUp(q_attempt)
              THEN /\ q_response' = NoResponse
                   /\ q_pc' = "responded"
                   /\ UNCHANGED q_attempt
              ELSE /\ q_attempt' = q_attempt + 1
                   /\ UNCHANGED <<q_pc, q_response>>
    /\ UNCHANGED <<q_platform, q_available, q_attempts, q_body, q_result,
                   coreVars, driverVars, webVars, statusVars>>

\* an exception that is no RequestException leaves _make_request
AttemptCrashed ==
    /\ q_pc = "requesting"
    /\ q_attempt < max_retries + 1
    /\ LET o == q_attempts[q_attempt + 1]
       IN  /\ o.raises = "other"
           /\ q_log' = Append(q_log, [outcome |-> o, slept |-> FALSE])
    /\ q_response' = RaisedInRequest
    /\ q_pc' = "responded"
    /\ UNCHANGED <<q_platform, q_available, q_attempts, q_body, q_attempt, q_result,
                   coreVars, driverVars, webVars, statusVars>>

\* the rest of search_<platform>, its except branches included
HandleResponse ==
    /\ q_pc = "responded"
    /\ q_result' = SearchResult(q_platform, q_response, q_body)
    /\ q_pc' = "returned"
    /\ UNCHANGED <<q_platform, q_available, q_attempts, q_body, q_attempt, q_log,
                   q_response, coreVars, driverVars, webVars, statusVars>>

NextSupadata ==
    StartSearch \/ AttemptAnswered \/ AttemptFailed \/ AttemptCrashed \/ HandleResponse

SpecSupadata == InitSupadata /\ [][NextSupadata]_vars

\* a call of search_<platform> keeps running until it returns
SpecSupadataFair == SpecSupadata /\ WF_vars(NextSupadata)

IsAnswer(o) == o.raises = "none"

\* the attempts made so far respect the retry rules
AttemptsWithinRules ==
    /\ Len(q_log) <= 3
    /\ Len(q_log) <= max_retries + 1
    /\ \A i \in 1..Len(q_log) :
          q_log[i].slept => /\ IsAnswer(q_log[i].outcome)
                            /\ q_log[i].outcome.status = 429
                            /\ i < max_retries + 1
    /\ \A i \in 1..(Len(q_log) - 1) :
          ~(IsAnswer(q_log[i].outcome) /\ q_log[i].outcome.status # 429)

(* C34: _make_request ends after at most max_retries + 1 (three) HTTP      *)
(* attempts whatever the attempts do; it sleeps only after a 429 response  *)
(* that is not the last attempt, and makes no further attempt after a      *)
(* response whose status is not 429.                                       *)
RequestEndsWithinThreeAttempts ==
    /\ []AttemptsWithinRules
    /\ <>(q_pc \in {"responded", "returned"})

\* two rate-limited attempts, each followed by a sleep, then a third attempt
RequestEndsWithinThreeAttemptsWitness ==
    /\ q_pc = "responded"
    /\ Len(q_log) = 3
    /\ q_log[1].slept
    /\ q_log[2].slept
    /\ ~q_log[3].slept

\* the attempts that answer with a status other than 429
Answers == {i \in 1..(max_retries + 1) :
               IsAnswer(q_attempts[i]) /\ q_attempts[i].status # 429}

(* C35: _make_request returns None exactly when its last permitted attempt *)
(* was made and raised a request error; otherwise it returns the response  *)
(* of the first attempt whose status is not 429, or the 429 response of    *)
(* the last permitted attempt; what earlier attempts did does not matter.  *)
RequestReturnsFirstAnswer ==
    (q_pc \in {"responded", "returned"} /\ q_available /\ q_response # RaisedInRequest) =>
        /\ q_response.kind \in {"none", "response"}
        /\ q_response.kind = "none" <=>
              /\ Len(q_log) = 3
              /\ q_log[3].outcome.raises = "request"
        /\ q_response.kind = "response" =>
              IF \E i \in Answers : \A j \in 1..(i - 1) : q_attempts[j].raises # "other"
              THEN LET first == CHOOSE i \in Answers : \A j \in Answers : i <= j
                   IN  /\ q_response.attempt = first
                       /\ q_response.status = q_attempts[first].status
              ELSE /\ q_response.attempt = 3
                   /\ q_response.status = 429
                   /\ q_attempts[3].status = 429

\* rate-limited, then two request errors: None
RequestReturnsFirstAnswerWitness ==
    /\ q_pc = "responded"
    /\ q_response = NoResponse
    /\ q_log[1].outcome.status = 429
    /\ q_log[2].outcome.raises = "request"

(* C36: whatever the API does (no key, no response after the retries, any  *)
(* status, an unparsable body, an exception while processing),             *)
(* search_youtube, search_twitter and search_linkedin return a mapping     *)
(* with success = true and a results list; API data is returned only when  *)
(* the final response has status 200 and its body is processed without     *)
(* error, and every other case returns locally generated data.             *)
SearchAlwaysSucceeds ==
    /\ q_pc \in {"input", "requesting", "responded", "returned"}
    /\ q_pc = "returned" =>
          /\ q_result.success
          /\ q_result.results \in Nat
          /\ q_result.data_quality = "api_data" <=>
                /\ q_available
                /\ q_response.kind = "response"
                /\ q_response.status = 200
                /\ q_body.kind = "items"
          /\ q_result.data_quality = "api_data" => q_result.results = q_body.items
          /\ q_result.data_quality # "api_data" =>
                /\ q_result.fallback_used \/ q_result.data_type = "simulated"
                /\ q_result.results = 5

\* a request error, a 429 and then a 200 with two items: the two are returned
SearchAlwaysSucceedsWitness ==
    /\ q_pc = "returned"
    /\ q_platform = "twitter"
    /\ Len(q_log) = 3
    /\ q_log[1].outcome.raises = "request"
    /\ q_log[2].outcome.status = 429
    /\ q_response.status = 200
    /\ q_result = ApiData(2)

----------------------------------------------------------------------------
(* search_all_platforms as _execute_social_analysis receives it (SpecOps)  *)

\* the entries of a list
Entries(list) == {list[i] : i \in 1..Len(list)}

\* list keeps the entries of of_list it contains, in of_list's order, once each
IsSubSequence(list, of_list) ==
    LET Kept(p) == p \in Entries(list)
    IN  list = SelectSeq(of_list, Kept)

(* C37: in every result of search_all_platforms the keys of platforms are  *)
(* the entries of platforms_searched, platforms_successful is a            *)
(* sub-sequence of platforms_searched, which follows the fixed order       *)
(* youtube, twitter, linkedin, instagram; instagram is never successful,   *)
(* total_results is the sum of the results lengths of the successful       *)
(* platforms, and success is true iff platforms_successful is non-empty.   *)
SearchAllPlatformsIsConsistent ==
    (o_pc = "returned" /\ o_name = "social_analysis" /\ o_outcome # "raises") =>
        LET r == o_result.social_results
            searched == r.platforms_searched.value
            successful == r.platforms_successful.value
            platforms == r.platforms.value
        IN  /\ DOMAIN platforms = Entries(searched)
            /\ Cardinality(Entries(searched)) = Len(searched)
            /\ IsSubSequence(searched, <<"youtube", "twitter", "linkedin", "instagram">>)
            /\ IsSubSequence(successful, searched)
            /\ "instagram" \notin Entries(successful)
            /\ r.total_results.value =
                  SumOver([p \in Entries(successful) |-> platforms[p].results],
                          Entries(successful))
            /\ r.success.value <=> successful # <<>>

\* search_twitter raised: three platforms searched, two of them with posts
SearchAllPlatformsIsConsistentWitness ==
    /\ o_pc = "returned"
    /\ o_name = "social_analysis"
    /\ o_outcome # "raises"
    /\ o_result.social_results.platforms_searched.value
          = <<"youtube", "linkedin", "instagram">>
    /\ o_result.social_results.platforms_successful.value = <<"youtube", "linkedin">>
    /\ o_result.social_results.total_results.value = 3

====
